---------------------------- MODULE Spec2Model ----------------------------
(***************************************************************************)
(* Traffic simulation on a generated road grid: the traffic-light state    *)
(* machine (objects.py TrafficLight, grid_map.py Intersection), the maze   *)
(* generator and the router (grid_map.py GridMap) and the episode driver   *)
(* with its vehicle motion engine (grid_env.py GridTrafficEnv).            *)
(*                                                                         *)
(* Random draws of the program (random.randint, random.random,             *)
(* random.choice, random.shuffle, the noise field's ranking) are inputs    *)
(* of the actions, chosen with \E from the range the code draws from.      *)
(* Coordinates are pairs <<x, y>>; the code's grid[y][x] is cells[<<x,y>>].*)
(* Sequences are 1-based: the code's path[i] is path[i + 1] here, and      *)
(* path_index keeps the code's 0-based value.                              *)
(***************************************************************************)
EXTENDS Integers, Sequences, FiniteSets, TLC

VARIABLES
    grid,                    \* GridMap: actual_width, actual_height, cells
    intersections,           \* GridMap.intersections: position -> Intersection
    vehicles,                \* GridTrafficEnv.vehicles, in list order
    current_step,            \* GridTrafficEnv.current_step
    arrived_count,           \* GridTrafficEnv.arrived_count
    total_spawned_vehicles,  \* GridTrafficEnv.total_spawned_vehicles
    agent_mode,              \* GridTrafficEnv._agent_mode
    fixed_vehicle_mode,      \* GridTrafficEnv._fixed_vehicle_mode
    fixed_vehicle_count,     \* GridTrafficEnv._fixed_vehicle_count
    map_seed,                \* GridTrafficEnv.map_seed: None, or <<s>> for the seed s
    last,                    \* the last call that drove the simulation, and its result
    twin                     \* a second episode run beside the first, or NoTwin

vars == <<grid, intersections, vehicles, current_step, arrived_count,
          total_spawned_vehicles, agent_mode, fixed_vehicle_mode,
          fixed_vehicle_count, map_seed, last, twin>>

---------------------------------------------------------------------------
(* Bounds of the model.                                                    *)

\* Largest number of vehicles an episode is asked to spawn.
MaxVehicles == 2
\* Ticks explored per episode (the guard of Step caps current_step).
MaxSteps == 2
\* Fine-grid dimensions of the grids the router is exercised on.
RouterCols == 3
RouterRows == 2

---------------------------------------------------------------------------
(* objects.py: LightState and TrafficLight.                                *)

RED == "red"
YELLOW == "yellow"
GREEN == "green"
LightState == {RED, YELLOW, GREEN}

GREEN_TIME_MIN == 10
GREEN_TIME_MAX == 20
YELLOW_TIME == 2
YELLOW_NO_PASS_THRESHOLD == 1
\* The countdown a RED light is given: "effectively unbounded".
RED_DURATION == 999
\* Largest offset Intersection.__init__ subtracts from the first countdowns.
MAX_INIT_OFFSET == 20

\* random.randint(GREEN_TIME_MIN, GREEN_TIME_MAX)
GreenDurations == GREEN_TIME_MIN..GREEN_TIME_MAX

Max(a, b) == IF a >= b THEN a ELSE b

\* _get_random_duration with a YELLOW of one tick more.
LongYellowDuration(state, d) ==
    IF state = GREEN THEN d
    ELSE IF state = YELLOW THEN YELLOW_TIME + 1
    ELSE RED_DURATION

\* TrafficLight._get_random_duration; d is the value randint returns.
get_random_duration(state, d) ==
    IF state = GREEN THEN d
    ELSE IF state = YELLOW THEN YELLOW_TIME
    ELSE RED_DURATION

\* TrafficLight.__init__ (the fields the program reads: _state and _timer).
TrafficLight(initial_state, d) ==
    [state |-> initial_state, timer |-> get_random_duration(initial_state, d)]

\* can_pass with the threshold compared by >= in place of >.
PassOnLastYellowTick(light) ==
    IF light.state = GREEN THEN TRUE
    ELSE IF light.state = YELLOW THEN light.timer >= YELLOW_NO_PASS_THRESHOLD
    ELSE FALSE

\* TrafficLight.can_pass
can_pass(light) ==
    IF light.state = GREEN THEN TRUE
    ELSE IF light.state = YELLOW THEN light.timer > YELLOW_NO_PASS_THRESHOLD
    ELSE FALSE

\* TrafficLight.set_state
set_state(light, new_state, d) ==
    [light EXCEPT !.state = new_state,
                  !.timer = get_random_duration(new_state, d)]

\* tick that lets the countdown reach zero and changes state one call later.
TickRunsBelowZero(light, d) ==
    LET t == light.timer - 1
        ticked == [light EXCEPT !.timer = t]
    IN  IF t < 0
        THEN [light |-> IF light.state = GREEN THEN set_state(ticked, YELLOW, d)
                        ELSE IF light.state = YELLOW THEN set_state(ticked, RED, d)
                        ELSE set_state(ticked, GREEN, d),
              changed |-> TRUE]
        ELSE [light |-> ticked, changed |-> FALSE]

\* TrafficLight.tick: the light after the tick and the value returned.
tick(light, d) ==
    LET t == light.timer - 1
        ticked == [light EXCEPT !.timer = t]
    IN  IF t <= 0
        THEN [light |-> IF light.state = GREEN THEN set_state(ticked, YELLOW, d)
                        ELSE IF light.state = YELLOW THEN set_state(ticked, RED, d)
                        ELSE set_state(ticked, GREEN, d),
              changed |-> TRUE]
        ELSE [light |-> ticked, changed |-> FALSE]

---------------------------------------------------------------------------
(* grid_map.py: Intersection.                                              *)

\* Intersection.__init__: ns_first is random.random() < 0.5, d_ns and d_ew
\* the durations the two TrafficLight constructors draw, offset is
\* random.randint(0, 20).
Intersection(ns_first, d_ns, d_ew, offset) ==
    LET ns == IF ns_first THEN TrafficLight(GREEN, d_ns) ELSE TrafficLight(RED, d_ns)
        ew == IF ns_first THEN TrafficLight(RED, d_ew) ELSE TrafficLight(GREEN, d_ew)
    IN  [traffic_light_ns |-> [ns EXCEPT !.timer = Max(1, ns.timer - offset)],
         traffic_light_ew |-> [ew EXCEPT !.timer = Max(1, ew.timer - offset)]]

\* Every Intersection the constructor can build.
NewIntersections ==
    { Intersection(f, d, d, o) :
        f \in BOOLEAN, d \in GreenDurations, o \in 0..MAX_INIT_OFFSET }

\* Intersection.update, lines 76-83: the RED light's countdown follows its sibling.
SyncRedTimers(inter) ==
    LET ns == inter.traffic_light_ns
        ew == inter.traffic_light_ew
        ns1 == IF ns.state = RED /\ ew.state = GREEN
               THEN [ns EXCEPT !.timer = ew.timer + YELLOW_TIME]
               ELSE IF ns.state = RED /\ ew.state = YELLOW
               THEN [ns EXCEPT !.timer = ew.timer]
               ELSE ns
        ew1 == IF ew.state = RED /\ ns1.state = GREEN
               THEN [ew EXCEPT !.timer = ns1.timer + YELLOW_TIME]
               ELSE IF ew.state = RED /\ ns1.state = YELLOW
               THEN [ew EXCEPT !.timer = ns1.timer]
               ELSE ew
    IN  [traffic_light_ns |-> ns1, traffic_light_ew |-> ew1]

\* update that lets the open light run out without opening its sibling.
UpdateWithoutHandOff(inter, d) ==
    LET s == SyncRedTimers(inter)
        ns == s.traffic_light_ns
        ew == s.traffic_light_ew
    IN  IF ns.state \in {GREEN, YELLOW}
        THEN [s EXCEPT !.traffic_light_ns = tick(ns, d).light]
        ELSE IF ew.state \in {GREEN, YELLOW}
        THEN [s EXCEPT !.traffic_light_ew = tick(ew, d).light]
        ELSE [s EXCEPT !.traffic_light_ns = set_state(ns, GREEN, d)]

\* Intersection.update; d is the duration drawn if a light turns GREEN.
update(inter, d) ==
    LET s == SyncRedTimers(inter)
        ns == s.traffic_light_ns
        ew == s.traffic_light_ew
    IN  IF ns.state \in {GREEN, YELLOW}
        THEN LET r == tick(ns, d)
             IN  IF r.changed /\ r.light.state = RED
                 THEN [traffic_light_ns |-> r.light,
                       traffic_light_ew |-> set_state(ew, GREEN, d)]
                 ELSE [s EXCEPT !.traffic_light_ns = r.light]
        ELSE IF ew.state \in {GREEN, YELLOW}
        THEN LET r == tick(ew, d)
             IN  IF r.changed /\ r.light.state = RED
                 THEN [traffic_light_ns |-> set_state(ns, GREEN, d),
                       traffic_light_ew |-> r.light]
                 ELSE [s EXCEPT !.traffic_light_ew = r.light]
        ELSE [s EXCEPT !.traffic_light_ns = set_state(ns, GREEN, d)]

\* toggle that opens the closed axis and forgets to close the open one.
ToggleKeepsOldAxis(inter, d) ==
    IF inter.traffic_light_ns.state \in {GREEN, YELLOW}
    THEN [inter EXCEPT !.traffic_light_ew = set_state(@, GREEN, d)]
    ELSE [inter EXCEPT !.traffic_light_ns = set_state(@, GREEN, d)]

\* toggle that closes the open axis and forgets to open the closed one.
ToggleClosesOnly(inter, d) ==
    IF inter.traffic_light_ns.state \in {GREEN, YELLOW}
    THEN [inter EXCEPT !.traffic_light_ns = set_state(@, RED, d)]
    ELSE [inter EXCEPT !.traffic_light_ew = set_state(@, RED, d)]

\* Intersection.toggle
toggle(inter, d) ==
    IF inter.traffic_light_ns.state \in {GREEN, YELLOW}
    THEN [traffic_light_ns |-> set_state(inter.traffic_light_ns, RED, d),
          traffic_light_ew |-> set_state(inter.traffic_light_ew, GREEN, d)]
    ELSE [traffic_light_ns |-> set_state(inter.traffic_light_ns, GREEN, d),
          traffic_light_ew |-> set_state(inter.traffic_light_ew, RED, d)]

\* Intersection.set_ns_green
set_ns_green(inter, d) ==
    [traffic_light_ns |-> set_state(inter.traffic_light_ns, GREEN, d),
     traffic_light_ew |-> set_state(inter.traffic_light_ew, RED, d)]

\* Intersection.set_ew_green
set_ew_green(inter, d) ==
    [traffic_light_ns |-> set_state(inter.traffic_light_ns, RED, d),
     traffic_light_ew |-> set_state(inter.traffic_light_ew, GREEN, d)]

\* set_ns_yellow that leaves the east-west light as it is.
NsYellowKeepsEw(inter, d) ==
    [inter EXCEPT !.traffic_light_ns = set_state(@, YELLOW, d)]

\* Intersection.set_ns_yellow
set_ns_yellow(inter, d) ==
    [traffic_light_ns |-> set_state(inter.traffic_light_ns, YELLOW, d),
     traffic_light_ew |-> set_state(inter.traffic_light_ew, RED, d)]

\* Intersection.set_ew_yellow
set_ew_yellow(inter, d) ==
    [traffic_light_ns |-> set_state(inter.traffic_light_ns, RED, d),
     traffic_light_ew |-> set_state(inter.traffic_light_ew, YELLOW, d)]

\* Intersection.can_pass with the two lights exchanged.
PassReadsOtherAxis(inter, direction) ==
    IF direction = "ns" THEN can_pass(inter.traffic_light_ew)
    ELSE can_pass(inter.traffic_light_ns)

\* Intersection.can_pass(direction)
intersection_can_pass(inter, direction) ==
    IF direction = "ns" THEN can_pass(inter.traffic_light_ns)
    ELSE can_pass(inter.traffic_light_ew)

---------------------------------------------------------------------------
(* grid_map.py: GridCell and GridMap.                                      *)

EMPTY == "EMPTY"
ROAD == "ROAD"
INTERSECTION == "INTERSECTION"

\* The value dijkstra returns when there is no path (Python's None).  The
\* callers test it with "if path", which an empty list fails as well.
None == <<>>

\* The offsets every neighbour loop of grid_map.py walks, in its order.
Offsets == <<<<0, 1>>, <<0, -1>>, <<1, 0>>, <<-1, 0>>>>

OffsetSet == { Offsets[i] : i \in 1..Len(Offsets) }

CellsOf(aw, ah) == (0..(aw - 1)) \X (0..(ah - 1))

InGrid(g, c) ==
    /\ 0 <= c[1] /\ c[1] < g.actual_width
    /\ 0 <= c[2] /\ c[2] < g.actual_height

\* GridMap.__init__, lines 145-157: the all-wall grid of a width x height map.
GridMap(width, height) ==
    [actual_width |-> width * 2 + 1,
     actual_height |-> height * 2 + 1,
     cells |-> [c \in CellsOf(width * 2 + 1, height * 2 + 1) |-> EMPTY]]

\* A carve that marks the cell it walks into but leaves the wall standing.
RECURSIVE CarveKeepsWalls(_, _, _, _, _)
CarveKeepsWalls(width, height, g, visited, stack) ==
    IF stack = <<>> THEN {g}
    ELSE LET cur == stack[Len(stack)]
             steps == { d \in OffsetSet :
                          /\ 0 <= cur[1] + d[1] /\ cur[1] + d[1] < width
                          /\ 0 <= cur[2] + d[2] /\ cur[2] + d[2] < height
                          /\ <<cur[1] + d[1], cur[2] + d[2]>> \notin visited }
         IN  IF steps = {}
             THEN CarveKeepsWalls(width, height, g, visited,
                                  SubSeq(stack, 1, Len(stack) - 1))
             ELSE UNION {
                    LET n == <<cur[1] + d[1], cur[2] + d[2]>>
                        cell == <<1 + n[1] * 2, 1 + n[2] * 2>>
                    IN  CarveKeepsWalls(width, height,
                                        [g EXCEPT !.cells = [c \in DOMAIN g.cells |->
                                                               IF c = cell THEN ROAD
                                                               ELSE g.cells[c]]],
                                        visited \cup {n}, Append(stack, n))
                    : d \in steps }

\* GridMap._generate_maze, lines 165-197: the depth-first carve.  The noise
\* field only ranks the unvisited neighbours, so the neighbour carved into is
\* an input: the result is the set of grids some ranking gives.
RECURSIVE Carve(_, _, _, _, _)
Carve(width, height, g, visited, stack) ==
    IF stack = <<>> THEN {g}
    ELSE LET cur == stack[Len(stack)]
             steps == { d \in OffsetSet :
                          /\ 0 <= cur[1] + d[1] /\ cur[1] + d[1] < width
                          /\ 0 <= cur[2] + d[2] /\ cur[2] + d[2] < height
                          /\ <<cur[1] + d[1], cur[2] + d[2]>> \notin visited }
         IN  IF steps = {}
             THEN Carve(width, height, g, visited, SubSeq(stack, 1, Len(stack) - 1))
             ELSE UNION {
                    LET n == <<cur[1] + d[1], cur[2] + d[2]>>
                        wall == <<1 + cur[1] * 2 + d[1], 1 + cur[2] * 2 + d[2]>>
                        cell == <<1 + n[1] * 2, 1 + n[2] * 2>>
                    IN  Carve(width, height,
                              [g EXCEPT !.cells = [c \in DOMAIN g.cells |->
                                                     IF c \in {wall, cell} THEN ROAD
                                                     ELSE g.cells[c]]],
                              visited \cup {n}, Append(stack, n))
                    : d \in steps }

\* The odd coordinates range(1, n - 1, 2) walks.
OddBelow(n) == { i \in 1..(n - 2) : i % 2 = 1 }

\* GridMap._add_extra_paths: the walls east and south of a carved cell that
\* the pass may open (it opens one when the noise sample exceeds 0.2).
ExtraPathWalls(g) ==
    { w \in CellsOf(g.actual_width, g.actual_height) :
        /\ g.cells[w] = EMPTY
        /\ w[1] < g.actual_width - 1
        /\ w[2] < g.actual_height - 1
        /\ \E x \in OddBelow(g.actual_width), y \in OddBelow(g.actual_height) :
              /\ g.cells[<<x, y>>] = ROAD
              /\ w \in {<<x + 1, y>>, <<x, y + 1>>} }

\* GridMap._add_extra_paths with the walls in `opened` passing the noise test.
add_extra_paths(g, opened) ==
    [g EXCEPT !.cells = [c \in DOMAIN g.cells |->
                            IF c \in opened THEN ROAD ELSE g.cells[c]]]

\* GridMap._add_boundary_exits
add_boundary_exits(g) ==
    LET aw == g.actual_width
        ah == g.actual_height
        exits ==
            { <<x, 0>> : x \in { x \in OddBelow(aw) : g.cells[<<x, 1>>] = ROAD } }
            \cup { <<x, ah - 1>> :
                     x \in { x \in OddBelow(aw) : g.cells[<<x, ah - 2>>] = ROAD } }
            \cup { <<0, y>> : y \in { y \in OddBelow(ah) : g.cells[<<1, y>>] = ROAD } }
            \cup { <<aw - 1, y>> :
                     y \in { y \in OddBelow(ah) : g.cells[<<aw - 2, y>>] = ROAD } }
    IN  [g EXCEPT !.cells = [c \in DOMAIN g.cells |->
                                IF c \in exits THEN ROAD ELSE g.cells[c]]]

\* GridMap.get_neighbors (as a set: no caller depends on the list's order,
\* the router orders its heap by the entries themselves).
get_neighbors(g, c) ==
    { n \in { <<c[1] + d[1], c[2] + d[2]>> : d \in OffsetSet } :
        InGrid(g, n) /\ g.cells[n] # EMPTY }

\* _identify_intersections that also classifies the cells of two connections.
IntersectionCellsFromTwo(g) ==
    { c \in DOMAIN g.cells :
        g.cells[c] # EMPTY /\ Cardinality(get_neighbors(g, c)) >= 2 }

\* GridMap._identify_intersections, lines 236-249: the cells it classifies.
IntersectionCells(g) ==
    { c \in DOMAIN g.cells :
        g.cells[c] # EMPTY /\ Cardinality(get_neighbors(g, c)) >= 3 }

\* GridMap._identify_intersections: the grid it leaves.
identify_intersections(g) ==
    [g EXCEPT !.cells = [c \in DOMAIN g.cells |->
                            IF c \in IntersectionCells(g) THEN INTERSECTION
                            ELSE g.cells[c]]]

\* GridMap._generate_maze: every grid the generator can leave for a
\* width x height map.
generate_maze(width, height) ==
    LET start == [GridMap(width, height) EXCEPT !.cells[<<1, 1>>] = ROAD]
        carved == Carve(width, height, start, {<<0, 0>>}, <<<<0, 0>>>>)
        looped == UNION { { add_extra_paths(g, opened) :
                              opened \in SUBSET ExtraPathWalls(g) } : g \in carved }
    IN  { identify_intersections(add_boundary_exits(g)) : g \in looped }

\* GridMap.get_boundary_cells (as a set: its caller shuffles the list).
get_boundary_cells(g) ==
    { c \in DOMAIN g.cells :
        /\ g.cells[c] # EMPTY
        /\ \/ c[1] = 0 \/ c[1] = g.actual_width - 1
           \/ c[2] = 0 \/ c[2] = g.actual_height - 1 }

\* Python's order on coordinate tuples.
CellLess(a, b) == a[1] < b[1] \/ (a[1] = b[1] /\ a[2] < b[2])

\* Python's order on lists of coordinate tuples.
RECURSIVE PathLess(_, _)
PathLess(p, q) ==
    IF q = <<>> THEN FALSE
    ELSE IF p = <<>> THEN TRUE
    ELSE IF Head(p) = Head(q) THEN PathLess(Tail(p), Tail(q))
    ELSE CellLess(Head(p), Head(q))

\* Python's order on the heap entries (cost, x, y, path).
EntryLess(a, b) ==
    \/ a.cost < b.cost
    \/ a.cost = b.cost /\ CellLess(a.pos, b.pos)
    \/ a.cost = b.cost /\ a.pos = b.pos /\ PathLess(a.path, b.path)

\* A pop that takes the greatest entry of the heap in place of the least.
PopGreatest(heap) == CHOOSE e \in heap : \A f \in heap \ {e} : EntryLess(f, e)

\* heapq.heappop: the least entry of the heap.
HeapTop(heap) == CHOOSE e \in heap : \A f \in heap \ {e} : EntryLess(e, f)

\* GridMap.dijkstra, lines 292-306: the loop over the heap.  The heap is a
\* set: no entry is pushed twice, since a path is extended only when its
\* last cell is first visited.
\* A search loop that steps onto every cell inside the grid, walls included.
RECURSIVE DijkstraLoopThroughWalls(_, _, _, _)
DijkstraLoopThroughWalls(g, end, heap, visited) ==
    IF heap = {} THEN None
    ELSE LET e == HeapTop(heap)
             rest == heap \ {e}
         IN  IF e.pos = end THEN e.path
             ELSE IF e.pos \in visited
             THEN DijkstraLoopThroughWalls(g, end, rest, visited)
             ELSE LET seen == visited \cup {e.pos}
                      around == { n \in { <<e.pos[1] + d[1], e.pos[2] + d[2]>> :
                                            d \in OffsetSet } : InGrid(g, n) }
                      pushed == { [cost |-> e.cost + 1, pos |-> n,
                                   path |-> Append(e.path, n)] :
                                  n \in around \ seen }
                  IN  DijkstraLoopThroughWalls(g, end, rest \cup pushed, seen)

RECURSIVE DijkstraLoop(_, _, _, _)
DijkstraLoop(g, end, heap, visited) ==
    IF heap = {} THEN None
    ELSE LET e == HeapTop(heap)
             rest == heap \ {e}
         IN  IF e.pos = end THEN e.path
             ELSE IF e.pos \in visited THEN DijkstraLoop(g, end, rest, visited)
             ELSE LET seen == visited \cup {e.pos}
                      pushed == { [cost |-> e.cost + 1, pos |-> n,
                                   path |-> Append(e.path, n)] :
                                  n \in get_neighbors(g, e.pos) \ seen }
                  IN  DijkstraLoop(g, end, rest \cup pushed, seen)

\* A router that searches without looking at the start and end cells.
DijkstraFromAnywhere(g, start, end) ==
    DijkstraLoop(g, end, {[cost |-> 0, pos |-> start, path |-> <<start>>]}, {})

\* GridMap.dijkstra
dijkstra(g, start, end) ==
    IF g.cells[start] = EMPTY THEN None
    ELSE IF g.cells[end] = EMPTY THEN None
    ELSE DijkstraLoop(g, end,
                      {[cost |-> 0, pos |-> start, path |-> <<start>>]}, {})

\* update_all_intersections that leaves out the first intersection of the table.
UpdateAllButFirst(inters, draws) ==
    [p \in DOMAIN inters |->
        IF \A q \in DOMAIN inters : p = q \/ CellLess(p, q) THEN inters[p]
        ELSE update(inters[p], draws[p])]

\* GridMap.update_all_intersections; draws[p] is the duration drawn at p.
update_all_intersections(inters, draws) ==
    [p \in DOMAIN inters |-> update(inters[p], draws[p])]

---------------------------------------------------------------------------
(* objects.py: Vehicle and Car; grid_env.py: GridTrafficEnv.               *)

NORTH == "north"
SOUTH == "south"
EAST == "east"
WEST == "west"

\* GridTrafficEnv.MAX_VEHICLES for grid_size <= 5
MAX_VEHICLES == 10

\* The grid_size the environment is constructed with (GridTrafficEnv.__init__).
grid_size == 1

\* grid_map is None, before the first reset.
NoGridMap == [actual_width |-> 0, actual_height |-> 0, cells |-> <<>>]

\* Car(Direction.NORTH, grid_position=start, destination=end) followed by
\* set_path(path).  id stands for the identity of the Python object, which
\* _move_vehicles compares vehicles by.
Car(id, start, end, path) ==
    [id |-> id, grid_position |-> start, destination |-> end, path |-> path,
     path_index |-> 0, wait_time |-> 0, direction |-> NORTH,
     class |-> "Car", priority_weight |-> 1]

SIREN_PRIORITY_BONUS == 10

\* Ambulance(Direction.NORTH, siren_on=siren_on, grid_position=start,
\* destination=end) followed by set_path(path).
Ambulance(id, siren_on, start, end, path) ==
    [id |-> id, grid_position |-> start, destination |-> end, path |-> path,
     path_index |-> 0, wait_time |-> 0, direction |-> NORTH,
     class |-> "Ambulance", priority_weight |-> 5, is_siren_on |-> siren_on]

\* Car.get_priority and Ambulance.get_priority
get_priority(v) ==
    IF v.class = "Car" THEN v.priority_weight + (v.wait_time \div 10)
    ELSE v.priority_weight
           + (IF v.is_siren_on THEN SIREN_PRIORITY_BONUS ELSE 0)
           + v.wait_time * 2

\* Vehicle.increment_wait_time
increment_wait_time(v) == [v EXCEPT !.wait_time = @ + 1]

\* Vehicle.reset_wait_time
reset_wait_time(v) == [v EXCEPT !.wait_time = 0]

\* move_on_grid that does not report a vehicle standing at the end of its
\* route.
MoveOnGridIgnoresRouteEnd(v) ==
    IF v.path = <<>> \/ v.path_index >= Len(v.path) - 1
    THEN [vehicle |-> v, reached |-> FALSE]
    ELSE LET moved == [v EXCEPT !.path_index = @ + 1,
                                !.grid_position = v.path[v.path_index + 2]]
         IN  [vehicle |-> moved,
              reached |-> moved.grid_position = moved.destination]

\* move_on_grid that advances the vehicle but never reports the destination.
MoveOnGridNeverReached(v) ==
    IF v.path = <<>> \/ v.path_index >= Len(v.path) - 1
    THEN [vehicle |-> v, reached |-> TRUE]
    ELSE [vehicle |-> [v EXCEPT !.path_index = @ + 1,
                                !.grid_position = v.path[v.path_index + 2]],
          reached |-> FALSE]

\* move_on_grid that jumps over a waypoint when the route has two more.
MoveOnGridSkipsWaypoint(v) ==
    IF v.path = <<>> \/ v.path_index >= Len(v.path) - 1
    THEN [vehicle |-> v, reached |-> TRUE]
    ELSE LET jump  == IF v.path_index + 2 <= Len(v.path) - 1 THEN 2 ELSE 1
             moved == [v EXCEPT !.path_index = @ + jump,
                                !.grid_position = v.path[v.path_index + jump + 1]]
         IN  [vehicle |-> moved,
              reached |-> moved.grid_position = moved.destination]

\* Vehicle.move_on_grid: the vehicle after the call and the value returned.
move_on_grid(v) ==
    IF v.path = <<>> \/ v.path_index >= Len(v.path) - 1
    THEN [vehicle |-> v, reached |-> TRUE]
    ELSE LET moved == [v EXCEPT !.path_index = @ + 1,
                                !.grid_position = v.path[v.path_index + 2]]
         IN  [vehicle |-> moved,
              reached |-> moved.grid_position = moved.destination]

\* The direction letter grid_env.py derives from a step of (dx, dy).
StepLetter(dx, dy) ==
    IF dy < 0 THEN "n" ELSE IF dy > 0 THEN "s" ELSE IF dx > 0 THEN "e" ELSE "w"

\* GridTrafficEnv._get_vehicle_direction
get_vehicle_direction(v) ==
    IF v.path_index < Len(v.path) - 1
    THEN LET next_pos == v.path[v.path_index + 2]
         IN  StepLetter(next_pos[1] - v.grid_position[1],
                        next_pos[2] - v.grid_position[2])
    ELSE "n"

\* _move_vehicles, lines 280-307: what a vehicle is about to do.  has_next is
\* "next_pos is not None".
Heading(v) ==
    IF v.path_index < Len(v.path) - 1
    THEN LET next_pos == v.path[v.path_index + 2]
             letter == StepLetter(next_pos[1] - v.grid_position[1],
                                  next_pos[2] - v.grid_position[2])
         IN  [has_next |-> TRUE, next_pos |-> next_pos, move_direction |-> letter,
              move_axis |-> IF letter \in {"n", "s"} THEN "ns" ELSE "ew",
              new_direction |-> CASE letter = "n" -> NORTH [] letter = "s" -> SOUTH
                                  [] letter = "e" -> EAST [] OTHER -> WEST]
    ELSE [has_next |-> FALSE, next_pos |-> v.grid_position, move_direction |-> "n",
          move_axis |-> "ns", new_direction |-> v.direction]

\* _move_vehicles, lines 269-276: the occupancy map built before any vehicle
\* moves, keyed by <<cell, direction>>; a later vehicle of the list overwrites
\* an earlier one under the same key.  The value is the vehicle's id.
BuildOccupied(vs) ==
    LET keys == { <<vs[i].grid_position, get_vehicle_direction(vs[i])>> :
                    i \in 1..Len(vs) }
        lastAt(k) == CHOOSE i \in 1..Len(vs) :
                        /\ <<vs[i].grid_position, get_vehicle_direction(vs[i])>> = k
                        /\ \A j \in (i + 1)..Len(vs) :
                              <<vs[j].grid_position, get_vehicle_direction(vs[j])>> # k
    IN  [k \in keys |-> vs[lastAt(k)].id]

\* An occupancy check that blocks on an occupant of any direction.
BlockedByAnyOccupant(v, occupied) ==
    LET h == Heading(v)
    IN  ~ ( /\ h.has_next
            /\ \E k \in DOMAIN occupied : k[1] = h.next_pos /\ occupied[k] # v.id )

\* An occupancy check that lets a vehicle of priority above an idle car's
\* push into an occupied cell.
PriorityBeatsOccupant(v, occupied) ==
    LET h == Heading(v)
    IN  \/ get_priority(v) > 1
        \/ ~ ( /\ h.has_next
               /\ <<h.next_pos, h.move_direction>> \in DOMAIN occupied
               /\ occupied[<<h.next_pos, h.move_direction>>] # v.id )

\* _move_vehicles, lines 309-314: the occupancy check.
OccupancyAllows(v, occupied) ==
    LET h == Heading(v)
    IN  ~ ( /\ h.has_next
            /\ <<h.next_pos, h.move_direction>> \in DOMAIN occupied
            /\ occupied[<<h.next_pos, h.move_direction>>] # v.id )

\* A motion step that does not ask the intersection.
GateNeverConsulted(v, inters) == TRUE

\* _move_vehicles, lines 316-318: the signal gate.
SignalAllows(v, inters) ==
    LET h == Heading(v)
    IN  (h.has_next /\ h.next_pos \in DOMAIN inters)
            => intersection_can_pass(inters[h.next_pos], h.move_axis)

\* _move_vehicles, lines 309-318: can_move.
CanMove(v, occupied, inters) ==
    OccupancyAllows(v, occupied) /\ SignalAllows(v, inters)

\* A function without the key k.
Without(f, k) == [x \in DOMAIN f \ {k} |-> f[x]]

\* A map in which a vehicle that advanced is not recorded.
WithNothingRecorded(f, k, val) == f

\* A function with the key k set to val.
With(f, k, val) == [x \in DOMAIN f \cup {k} |-> IF x = k THEN val ELSE f[x]]

\* _move_vehicles, lines 278-339: one iteration of the loop, for the vehicle
\* vs[i], on the loop's state st = [occupied, remaining, arrived_count, trace].
\* trace records, per vehicle id, the occupancy map the vehicle was checked
\* against and whether it moved.
MoveOne(v0, st, inters) ==
    LET h == Heading(v0)
        v == [v0 EXCEPT !.direction = h.new_direction]
        can_move == CanMove(v, st.occupied, inters)
        old_key == <<v.grid_position, get_vehicle_direction(v)>>
        freed == IF old_key \in DOMAIN st.occupied
                 THEN Without(st.occupied, old_key) ELSE st.occupied
        r == move_on_grid(v)
        seen == Append(st.trace, [id |-> v.id, occupied |-> st.occupied,
                                  can_move |-> can_move])
    IN  IF ~can_move
        THEN [st EXCEPT !.remaining = Append(@, v), !.trace = seen]
        ELSE IF r.reached
        THEN [st EXCEPT !.occupied = freed, !.arrived_count = @ + 1,
                        !.trace = seen]
        ELSE [st EXCEPT !.occupied = With(freed,
                                          <<r.vehicle.grid_position, h.move_direction>>,
                                          v.id),
                        !.remaining = Append(@, r.vehicle),
                        !.trace = seen]

RECURSIVE MoveLoop(_, _, _, _)
MoveLoop(vs, i, st, inters) ==
    IF i > Len(vs) THEN st
    ELSE MoveLoop(vs, i + 1, MoveOne(vs[i], st, inters), inters)

\* GridTrafficEnv._move_vehicles: remaining is the new vehicle list.
move_vehicles(vs, inters, arrived) ==
    MoveLoop(vs, 1,
             [occupied |-> BuildOccupied(vs), remaining |-> <<>>,
              arrived_count |-> arrived, trace |-> <<>>],
             inters)

Manhattan(a, b) ==
    (IF a[1] >= b[1] THEN a[1] - b[1] ELSE b[1] - a[1])
    + (IF a[2] >= b[2] THEN a[2] - b[2] ELSE b[2] - a[2])

\* min_dist of the two spawn routines.
MinDist(g) == (g.actual_width + g.actual_height) \div 6

\* The ends a spawn routine draws from: the far candidates if there are any.
AvailableEnds(g, candidates, start) ==
    LET far == { b \in candidates : Manhattan(b, start) >= MinDist(g) }
    IN  IF far # {} THEN far ELSE candidates

\* The orders random.shuffle can leave a list of the cells of S in.
Shuffles(S) ==
    { f \in [1..Cardinality(S) -> S] : \A i, j \in 1..Cardinality(S) :
                                          f[i] = f[j] => i = j }

\* _spawn_initial_vehicles, lines 180-210: the loop, with n iterations left.
\* Every list of vehicles the draws of random.choice can give.
RECURSIVE SpawnInitialLoop(_, _, _, _, _)
SpawnInitialLoop(g, boundary, n, used_starts, vs) ==
    LET free == { i \in 1..Len(boundary) : boundary[i] \notin used_starts }
    IN  IF n = 0 \/ free = {} THEN {vs}
        ELSE LET start == boundary[CHOOSE i \in free : \A j \in free : i <= j]
                 all == { boundary[i] : i \in 1..Len(boundary) }
                 ends == AvailableEnds(g, all \ {start}, start)
             IN  IF ends = {} THEN {vs}
                 ELSE UNION {
                        LET path == dijkstra(g, start, end)
                        IN  IF path # None
                            THEN SpawnInitialLoop(g, boundary, n - 1,
                                     used_starts \cup {start},
                                     Append(vs, Car(Len(vs) + 1, start, end, path)))
                            ELSE SpawnInitialLoop(g, boundary, n - 1, used_starts, vs)
                        : end \in ends }

\* GridTrafficEnv._spawn_initial_vehicles: every vehicle list it can leave;
\* drawn is random.randint(3, 5).
spawn_initial_vehicles(g, fixed, count, drawn) ==
    LET cells == get_boundary_cells(g)
        asked == IF fixed THEN count ELSE drawn
        num == IF asked <= Cardinality(cells) THEN asked ELSE Cardinality(cells)
    IN  IF num = 0 THEN {<<>>}
        ELSE UNION { SpawnInitialLoop(g, boundary, num, {}, <<>>) :
                       boundary \in Shuffles(cells) }

\* GridTrafficEnv._spawn_single_vehicle: every vehicle list it can leave.
\* It returns None on every path, so its caller never counts the spawn.
spawn_single_vehicle(g, vs, new_id) ==
    LET boundary == get_boundary_cells(g)
        occupied == { vs[i].grid_position : i \in 1..Len(vs) }
                    \cup { vs[i].destination : i \in 1..Len(vs) }
        starts == boundary \ occupied
    IN  IF Cardinality(boundary) < 2 \/ starts = {} THEN {vs}
        ELSE UNION {
               LET ends == AvailableEnds(g, (boundary \ occupied) \ {start}, start)
               IN  IF ends = {} THEN {vs}
                   ELSE { LET path == dijkstra(g, start, end)
                          IN  IF path = None THEN vs
                              ELSE Append(vs, Car(new_id, start, end, path))
                          : end \in ends }
               : start \in starts }

\* GridTrafficEnv._spawn_vehicles: every vehicle list it can leave; lucky is
\* random.random() < VEHICLE_SPAWN_PROB, created the number of vehicle
\* objects built so far.  total_spawned_vehicles is left alone: the call it
\* is conditioned on returns None.
spawn_vehicles(g, vs, fixed, lucky, created) ==
    IF fixed \/ Len(vs) >= MAX_VEHICLES \/ ~lucky THEN {vs}
    ELSE UNION { spawn_single_vehicle(g, once, created + 1 + (Len(once) - Len(vs))) :
                   once \in spawn_single_vehicle(g, vs, created + 1) }

\* The action names control_intersection accepts.
ControlActions == {"toggle", "ns_green", "ew_green", "ns_yellow", "ew_yellow", "hold"}

\* control_intersection with 'toggle' as the fall-through branch.
UnknownActionAccepted(g, inters, position, action, d) ==
    IF g = NoGridMap THEN [ret |-> FALSE, intersections |-> inters]
    ELSE IF position \notin DOMAIN inters
    THEN [ret |-> FALSE, intersections |-> inters]
    ELSE IF action = "ns_green"
    THEN [ret |-> TRUE, intersections |-> [inters EXCEPT ![position] = set_ns_green(@, d)]]
    ELSE IF action = "ew_green"
    THEN [ret |-> TRUE, intersections |-> [inters EXCEPT ![position] = set_ew_green(@, d)]]
    ELSE IF action = "ns_yellow"
    THEN [ret |-> TRUE, intersections |-> [inters EXCEPT ![position] = set_ns_yellow(@, d)]]
    ELSE IF action = "ew_yellow"
    THEN [ret |-> TRUE, intersections |-> [inters EXCEPT ![position] = set_ew_yellow(@, d)]]
    ELSE IF action = "hold" THEN [ret |-> TRUE, intersections |-> inters]
    ELSE [ret |-> TRUE, intersections |-> [inters EXCEPT ![position] = toggle(@, d)]]

\* GridTrafficEnv.control_intersection: the value returned and the
\* intersections it leaves; d is the duration drawn if a light turns GREEN.
control_intersection(g, inters, position, action, d) ==
    IF g = NoGridMap THEN [ret |-> FALSE, intersections |-> inters]
    ELSE IF position \notin DOMAIN inters THEN [ret |-> FALSE, intersections |-> inters]
    ELSE IF action = "toggle"
    THEN [ret |-> TRUE, intersections |-> [inters EXCEPT ![position] = toggle(@, d)]]
    ELSE IF action = "ns_green"
    THEN [ret |-> TRUE, intersections |-> [inters EXCEPT ![position] = set_ns_green(@, d)]]
    ELSE IF action = "ew_green"
    THEN [ret |-> TRUE, intersections |-> [inters EXCEPT ![position] = set_ew_green(@, d)]]
    ELSE IF action = "ns_yellow"
    THEN [ret |-> TRUE, intersections |-> [inters EXCEPT ![position] = set_ns_yellow(@, d)]]
    ELSE IF action = "ew_yellow"
    THEN [ret |-> TRUE, intersections |-> [inters EXCEPT ![position] = set_ew_yellow(@, d)]]
    ELSE IF action = "hold" THEN [ret |-> TRUE, intersections |-> inters]
    ELSE [ret |-> FALSE, intersections |-> inters]

\* A tick that updates the signals whatever the mode.
UpdatesInEveryMode(inters, agent, draws) == update_all_intersections(inters, draws)

\* A tick that leaves the signals alone whatever the mode.
SignalsNeverUpdated(inters, agent, draws) == inters

\* GridTrafficEnv.step, lines 131-132: the signals the motion engine reads.
SignalsOfTick(inters, agent, draws) ==
    IF ~agent THEN update_all_intersections(inters, draws) ELSE inters

---------------------------------------------------------------------------
(* The state machine.                                                      *)

\* The number of Vehicle objects built in the episode so far: the next
\* object's identity.  In fixed-vehicle mode no vehicle is built after reset.
Created == IF fixed_vehicle_mode THEN total_spawned_vehicles
           ELSE total_spawned_vehicles + current_step * 2

\* No second episode is run.
NoTwin == [episode |-> <<>>, seeds |-> <<>>]

\* GridTrafficEnv.__init__ followed by set_fixed_vehicle_mode(n), as
\* run_grid_simulation does (main.py, lines 17-18).
InitEnv(counts) ==
    /\ grid = NoGridMap
    /\ intersections = <<>>
    /\ vehicles = <<>>
    /\ current_step = 0
    /\ arrived_count = 0
    /\ total_spawned_vehicles = 0
    /\ agent_mode = FALSE
    /\ fixed_vehicle_mode = TRUE
    /\ fixed_vehicle_count \in counts
    /\ map_seed = None
    /\ last = [op |-> "init"]
    /\ twin = NoTwin

\* GridTrafficEnv.reset of an environment constructed with grid_size = size,
\* that was not reset before.  The signals are built from the phases F
\* (is north-south the GREEN axis), the durations D and the offsets O.
ResetSized(size, F, D, O) ==
    /\ grid = NoGridMap
    /\ \E g \in generate_maze(size, size) :
         /\ grid' = g
         /\ intersections' \in
                [IntersectionCells(g) ->
                    { Intersection(f, d, d, o) : f \in F, d \in D, o \in O }]
         /\ \E drawn \in 3..5 :
              vehicles' \in spawn_initial_vehicles(g, fixed_vehicle_mode,
                                                   fixed_vehicle_count, drawn)
    /\ current_step' = 0
    /\ arrived_count' = 0
    /\ total_spawned_vehicles' = Len(vehicles')
    /\ last' = [op |-> "reset"]
    /\ UNCHANGED <<map_seed, twin, agent_mode, fixed_vehicle_mode, fixed_vehicle_count>>

\* GridTrafficEnv.reset, with every phase drawn.
Reset(D, O) == ResetSized(grid_size, BOOLEAN, D, O)

\* GridTrafficEnv.set_agent_mode
SetAgentMode(enabled) ==
    /\ agent_mode' = enabled
    /\ UNCHANGED <<map_seed, twin, last, grid, intersections, vehicles, current_step, arrived_count,
                   total_spawned_vehicles, fixed_vehicle_mode, fixed_vehicle_count>>

\* GridTrafficEnv.update_intersections
UpdateIntersections(D) ==
    /\ \E draws \in [DOMAIN intersections -> D] :
         intersections' = IF grid # NoGridMap
                          THEN update_all_intersections(intersections, draws)
                          ELSE intersections
    /\ last' = [op |-> "update_intersections"]
    /\ UNCHANGED <<map_seed, twin, grid, vehicles, current_step, arrived_count,
                   total_spawned_vehicles, agent_mode, fixed_vehicle_mode,
                   fixed_vehicle_count>>

\* The draws a command consumes: only a light turned GREEN draws a duration.
DrawsOf(D, action) ==
    IF action \in {"toggle", "ns_green", "ew_green"} THEN D
    ELSE { CHOOSE d \in D : \A e \in D : d <= e }

\* GridTrafficEnv.control_intersection(position, action).  `last` keeps of the
\* arguments whether the action is hold and whether the call is valid: a
\* known action at an intersection of the network.
ControlIntersection(D, position, action) ==
    /\ \E d \in DrawsOf(D, action) :
         LET r == control_intersection(grid, intersections, position, action, d)
         IN  /\ intersections' = r.intersections
             /\ last' = [op |-> "control_intersection", hold |-> action = "hold",
                         valid |-> action \in ControlActions
                                       /\ position \in DOMAIN intersections,
                         ret |-> r.ret]
    /\ UNCHANGED <<map_seed, twin, grid, vehicles, current_step, arrived_count,
                   total_spawned_vehicles, agent_mode, fixed_vehicle_mode,
                   fixed_vehicle_count>>

\* The draws a tick consumes: one duration per intersection when the signals
\* update themselves, none in agent mode.
DrawsOfTick(D, inters, agent) ==
    IF agent THEN { [p \in DOMAIN inters |-> CHOOSE d \in D : \A e \in D : d <= e] }
    ELSE [DOMAIN inters -> D]

\* The vehicles whose route cursor stands at the last waypoint of the route.
AtRouteEnd(vs) ==
    { i \in 1..Len(vs) : vs[i].path_index >= Len(vs[i].path) - 1 }

\* GridTrafficEnv.step, on an environment that was reset (before reset the
\* call raises), with the tick counter capped.  `last` keeps how many
\* vehicles the tick found at the end of their route.
StepWithin(D, cap) ==
    /\ grid # NoGridMap
    /\ current_step < cap
    /\ current_step' = current_step + 1
    /\ \E draws \in DrawsOfTick(D, intersections, agent_mode) :
         LET signals == SignalsOfTick(intersections, agent_mode, draws)
             moved == move_vehicles(vehicles, signals, arrived_count)
         IN  /\ intersections' = signals
             /\ arrived_count' = moved.arrived_count
             /\ \E lucky \in (IF fixed_vehicle_mode THEN {FALSE} ELSE BOOLEAN) :
                   vehicles' \in spawn_vehicles(grid, moved.remaining,
                                                fixed_vehicle_mode, lucky, Created)
    /\ last' = [op |-> "step", agent |-> agent_mode,
                at_end |-> Cardinality(AtRouteEnd(vehicles))]
    /\ UNCHANGED <<map_seed, twin, grid, total_spawned_vehicles, agent_mode, fixed_vehicle_mode,
                   fixed_vehicle_count>>

\* GridTrafficEnv.step in the episodes of at most MaxSteps ticks.
Step(D) == StepWithin(D, MaxSteps)

\* The commands issued: every action name, and a name that is none of them,
\* at the intersection of the 3 x 3 grid; two of them at a cell that is no
\* intersection and at a coordinate outside the grid.
CommandActions == ControlActions \cup {"flash"}
Commands ==
    ({<<1, 1>>} \X CommandActions) \cup ({<<0, 1>>, <<7, 7>>} \X {"toggle", "flash"})

\* The durations and offsets the episodes of Spec draw for their signals.
EpisodeDurations == {GREEN_TIME_MIN}
EpisodeOffsets == {0, MAX_INIT_OFFSET}

\* One episode of at most MaxVehicles vehicles, driven tick by tick, with
\* commands issued and the agent mode switched at any time.
Init == InitEnv(0..MaxVehicles)

Next ==
    \/ Reset(EpisodeDurations, EpisodeOffsets)
    \/ \E enabled \in BOOLEAN : SetAgentMode(enabled)
    \/ \E c \in Commands : ControlIntersection(EpisodeDurations, c[1], c[2])
    \/ Step(EpisodeDurations)

Spec == Init /\ [][Next]_vars

\* The signals alone: an episode without vehicles, with every duration and
\* offset the code draws, updated and commanded in any order.
SignalInit == InitEnv({0})

SignalNext ==
    \/ Reset(GreenDurations, 0..MAX_INIT_OFFSET)
    \/ UpdateIntersections(GreenDurations)
    \/ \E c \in Commands : ControlIntersection(GreenDurations, c[1], c[2])

SpecSignal == SignalInit /\ [][SignalNext]_vars

---------------------------------------------------------------------------
(* Uninterrupted autonomous updates, with the phases timed: beside the     *)
(* signals, `last` keeps for every light for how many consecutive updates  *)
(* it has shown its state, and whether the phase began with a hand-off     *)
(* (a YELLOW inherits this from the GREEN it follows).                     *)

\* A light first seen in its state.
FreshRun == [since |-> 1, handed |-> FALSE]

\* The run of a light after an update took it from `before` to `after`.
NextRun(before, after, run) ==
    IF after.state = before.state THEN [run EXCEPT !.since = @ + 1]
    ELSE [since |-> 1,
          handed |-> IF before.state = RED THEN after.state = GREEN
                     ELSE IF before.state = GREEN THEN run.handed
                     ELSE FALSE]

\* The runs observed so far.
PhaseRuns ==
    IF "runs" \in DOMAIN last THEN last.runs
    ELSE [p \in DOMAIN intersections |-> [ns |-> FreshRun, ew |-> FreshRun]]

\* GridTrafficEnv.update_intersections, with the runs of the lights observed.
UpdateTimed(D) ==
    /\ \E draws \in [DOMAIN intersections -> D] :
         LET after == IF grid # NoGridMap
                      THEN update_all_intersections(intersections, draws)
                      ELSE intersections
         IN  /\ intersections' = after
             /\ last' = [op |-> "update_intersections",
                         runs |-> [p \in DOMAIN intersections |->
                                     [ns |-> NextRun(intersections[p].traffic_light_ns,
                                                     after[p].traffic_light_ns,
                                                     PhaseRuns[p].ns),
                                      ew |-> NextRun(intersections[p].traffic_light_ew,
                                                     after[p].traffic_light_ew,
                                                     PhaseRuns[p].ew)]]]
    /\ UNCHANGED <<map_seed, twin, grid, vehicles, current_step, arrived_count,
                   total_spawned_vehicles, agent_mode, fixed_vehicle_mode,
                   fixed_vehicle_count>>

PhasesInit == InitEnv({0})

PhasesNext ==
    \/ Reset(GreenDurations, 0..MAX_INIT_OFFSET)
    \/ UpdateTimed(GreenDurations)

SpecPhases == PhasesInit /\ [][PhasesNext]_vars

\* Updates and commands in any order, and then updates only, timed from the
\* state the last command or untimed update left.  Once the timed updates
\* begin nothing interrupts them, and they go on for ever: the simulation
\* loop calls update_intersections once per frame.
Uninterrupted == "runs" \in DOMAIN last

WaitInit == InitEnv({0})

WaitNext ==
    \/ Reset(GreenDurations, 0..MAX_INIT_OFFSET)
    \/ ~Uninterrupted /\ UpdateIntersections(GreenDurations)
    \/ ~Uninterrupted /\ \E c \in Commands :
                             ControlIntersection(GreenDurations, c[1], c[2])
    \/ UpdateTimed(GreenDurations)

SpecWait == WaitInit /\ [][WaitNext]_vars /\ WF_vars(UpdateTimed(GreenDurations))

\* The grid_size of the environment whose network has several intersections.
network_size == 2

\* An episode without vehicles on a network of four intersections, ticked in
\* either mode.
NetworkInit == InitEnv({0})

NetworkNext ==
    \/ ResetSized(network_size, BOOLEAN, EpisodeDurations, EpisodeOffsets)
    \/ \E enabled \in BOOLEAN : SetAgentMode(enabled)
    \/ Step(EpisodeDurations)

SpecNetwork == NetworkInit /\ [][NetworkNext]_vars

---------------------------------------------------------------------------
(* Two episodes side by side.  Both environments are constructed with the  *)
(* same seed and receive the same calls.  random.seed(m) fixes every draw  *)
(* that follows it, so two episodes whose maps were seeded with the same m *)
(* draw the same values, and two episodes seeded differently draw          *)
(* independently.                                                          *)

\* Largest seed value an environment is constructed with or draws.
MaxSeed == 1

\* Python's truth test of a seed: None and 0 are false.
Truthy(seed) == seed # None /\ seed # <<0>>

\* reset's choice of the seed of the map:
\* self.map_seed if self.map_seed else (seed or random.randint(0, 10000)).
map_seed_of(self_map_seed, seed, drawn) ==
    IF Truthy(self_map_seed) THEN self_map_seed
    ELSE IF Truthy(seed) THEN seed
    ELSE <<drawn>>

\* The state of the first episode, as a record.
Episode ==
    [grid |-> grid, intersections |-> intersections, vehicles |-> vehicles,
     current_step |-> current_step, arrived_count |-> arrived_count,
     total_spawned_vehicles |-> total_spawned_vehicles]

\* The states reset can leave an episode in, one per sequence of draws.
ResetOutcomes(size, F, D, O) ==
    UNION {
      UNION {
        { [grid |-> g, intersections |-> inters, vehicles |-> vs,
           current_step |-> 0, arrived_count |-> 0,
           total_spawned_vehicles |-> Len(vs)] :
            vs \in UNION { spawn_initial_vehicles(g, fixed_vehicle_mode,
                                                  fixed_vehicle_count, drawn) :
                             drawn \in 3..5 } } :
        inters \in [IntersectionCells(g) ->
                      { Intersection(f, d, d, o) : f \in F, d \in D, o \in O }] } :
      g \in generate_maze(size, size) }

\* The state one call of step leaves an episode of fixed vehicle mode in.
StepOutcome(e, agent, draws) ==
    LET signals == SignalsOfTick(e.intersections, agent, draws)
        moved == move_vehicles(e.vehicles, signals, e.arrived_count)
    IN  [e EXCEPT !.current_step = @ + 1,
                  !.intersections = signals,
                  !.vehicles = moved.remaining,
                  !.arrived_count = moved.arrived_count]

\* The draws of the second episode, given those of the first.
TwinDraws(all, first) ==
    { x \in all : twin.seeds[1] = twin.seeds[2] => x = first }

\* The durations the signals of the two episodes draw.
TwinDurations == {GREEN_TIME_MIN, GREEN_TIME_MAX}

\* Two environments constructed with the same seed, in fixed vehicle mode
\* with one vehicle.
TwinInit ==
    /\ grid = NoGridMap
    /\ intersections = <<>>
    /\ vehicles = <<>>
    /\ current_step = 0
    /\ arrived_count = 0
    /\ total_spawned_vehicles = 0
    /\ agent_mode = FALSE
    /\ fixed_vehicle_mode = TRUE
    /\ fixed_vehicle_count = 1
    /\ map_seed \in { <<s>> : s \in 0..MaxSeed }
    /\ last = [op |-> "init"]
    /\ twin = [episode |-> Episode, seeds |-> <<>>]

\* reset(seed) called on both environments.
TwinReset(seed) ==
    /\ grid = NoGridMap
    /\ \E e1 \in ResetOutcomes(grid_size, BOOLEAN, TwinDurations, EpisodeOffsets),
          e2 \in ResetOutcomes(grid_size, BOOLEAN, TwinDurations, EpisodeOffsets) :
         \E drawn1 \in 0..MaxSeed, drawn2 \in 0..MaxSeed :
            LET m1 == map_seed_of(map_seed, seed, drawn1)
                m2 == map_seed_of(map_seed, seed, drawn2)
            IN  /\ m1 = m2 => e2 = e1
                /\ grid' = e1.grid
                /\ intersections' = e1.intersections
                /\ vehicles' = e1.vehicles
                /\ current_step' = e1.current_step
                /\ arrived_count' = e1.arrived_count
                /\ total_spawned_vehicles' = e1.total_spawned_vehicles
                /\ twin' = [episode |-> e2, seeds |-> <<m1, m2>>]
    /\ last' = [op |-> "reset"]
    /\ UNCHANGED <<map_seed, agent_mode, fixed_vehicle_mode, fixed_vehicle_count>>

\* control_intersection(position, action) called on both environments.
TwinControlIntersection(position, action) ==
    /\ grid # NoGridMap
    /\ \E d1 \in DrawsOf(TwinDurations, action) :
         \E d2 \in TwinDraws(DrawsOf(TwinDurations, action), d1) :
            LET r1 == control_intersection(grid, intersections, position, action, d1)
                r2 == control_intersection(twin.episode.grid,
                                           twin.episode.intersections,
                                           position, action, d2)
            IN  /\ intersections' = r1.intersections
                /\ twin' = [twin EXCEPT !.episode.intersections = r2.intersections]
                /\ last' = [op |-> "control_intersection", hold |-> action = "hold",
                            valid |-> action \in ControlActions
                                          /\ position \in DOMAIN intersections,
                            ret |-> r1.ret]
    /\ UNCHANGED <<map_seed, grid, vehicles, current_step, arrived_count,
                   total_spawned_vehicles, agent_mode, fixed_vehicle_mode,
                   fixed_vehicle_count>>

\* step called on both environments.
TwinStep ==
    /\ grid # NoGridMap
    /\ fixed_vehicle_mode
    /\ current_step < MaxSteps
    /\ \E draws1 \in DrawsOfTick(TwinDurations, intersections, agent_mode) :
         \E draws2 \in TwinDraws(DrawsOfTick(TwinDurations,
                                             twin.episode.intersections,
                                             agent_mode), draws1) :
            LET e1 == StepOutcome(Episode, agent_mode, draws1)
            IN  /\ current_step' = e1.current_step
                /\ intersections' = e1.intersections
                /\ vehicles' = e1.vehicles
                /\ arrived_count' = e1.arrived_count
                /\ twin' = [twin EXCEPT
                              !.episode = StepOutcome(@, agent_mode, draws2)]
    /\ last' = [op |-> "step", agent |-> agent_mode]
    /\ UNCHANGED <<map_seed, grid, total_spawned_vehicles, agent_mode,
                   fixed_vehicle_mode, fixed_vehicle_count>>

\* The commands both episodes receive.
TwinCommands == {<<1, 1>>} \X {"toggle", "hold"}

TwinNext ==
    \/ \E seed \in {None} \cup { <<s>> : s \in 0..MaxSeed } : TwinReset(seed)
    \/ \E enabled \in BOOLEAN : SetAgentMode(enabled)
    \/ \E c \in TwinCommands : TwinControlIntersection(c[1], c[2])
    \/ TwinStep

SpecTwin == TwinInit /\ [][TwinNext]_vars

---------------------------------------------------------------------------
(* The router on its own.                                                  *)

\* A GridMap whose grid array is any assignment of walls and roads to
\* RouterCols x RouterRows cells, classified by _identify_intersections.
RouterGrids ==
    { identify_intersections([actual_width |-> RouterCols,
                              actual_height |-> RouterRows,
                              cells |-> cells]) :
        cells \in [CellsOf(RouterCols, RouterRows) -> {EMPTY, ROAD}] }

RouterInit ==
    /\ grid \in RouterGrids
    /\ intersections = <<>>
    /\ vehicles = <<>>
    /\ current_step = 0
    /\ arrived_count = 0
    /\ total_spawned_vehicles = 0
    /\ agent_mode = FALSE
    /\ fixed_vehicle_mode = TRUE
    /\ fixed_vehicle_count = 0
    /\ map_seed = None
    /\ last = [op |-> "init"]
    /\ twin = NoTwin

\* grid_map.dijkstra(start, end), for coordinates inside the grid.  The router
\* keeps nothing between calls, so a behaviour makes one call.
Route(start, end) ==
    /\ grid # NoGridMap
    /\ last.op \in {"init", "GridMap"}
    /\ InGrid(grid, start) /\ InGrid(grid, end)
    /\ last' = [op |-> "dijkstra", start |-> start, end |-> end,
                ret |-> dijkstra(grid, start, end)]
    /\ UNCHANGED <<map_seed, twin, grid, intersections, vehicles, current_step, arrived_count,
                   total_spawned_vehicles, agent_mode, fixed_vehicle_mode,
                   fixed_vehicle_count>>

RouterNext ==
    \E start \in DOMAIN grid.cells, end \in DOMAIN grid.cells : Route(start, end)

SpecRouter == RouterInit /\ [][RouterNext]_vars

---------------------------------------------------------------------------
(* The motion engine on vehicles built by hand: Car objects whose route is *)
(* the router's answer for any two passable cells of the generated 3 x 3   *)
(* network, the same cell twice included (a route of one cell).            *)

\* Largest number of vehicles built by hand.
MaxBuilt == 2

\* Car(Direction.NORTH, grid_position=start, destination=end) with
\* set_path(grid_map.dijkstra(start, end)), for every routable pair.
BuiltCars(g, id) ==
    { Car(id, start, end, dijkstra(g, start, end)) :
        start \in { c \in DOMAIN g.cells : g.cells[c] # EMPTY },
        end \in { c \in DOMAIN g.cells : g.cells[c] # EMPTY } }

\* The vehicle lists of n hand-built cars.
RECURSIVE BuiltLists(_, _)
BuiltLists(g, n) ==
    IF n = 0 THEN {<<>>}
    ELSE { Append(vs, v) : vs \in BuiltLists(g, n - 1), v \in BuiltCars(g, n) }

\* An environment after reset whose vehicle list was replaced by hand-built
\* cars.
MotionInit ==
    /\ grid \in generate_maze(grid_size, grid_size)
    /\ intersections \in
           [IntersectionCells(grid) ->
               { Intersection(f, d, d, o) :
                   f \in BOOLEAN, d \in EpisodeDurations, o \in EpisodeOffsets }]
    /\ vehicles \in UNION { BuiltLists(grid, n) : n \in 1..MaxBuilt }
    /\ current_step = 0
    /\ arrived_count = 0
    /\ total_spawned_vehicles = Len(vehicles)
    /\ agent_mode = FALSE
    /\ fixed_vehicle_mode = TRUE
    /\ fixed_vehicle_count = Len(vehicles)
    /\ map_seed = None
    /\ last = [op |-> "init"]
    /\ twin = NoTwin

MotionNext ==
    \/ \E enabled \in BOOLEAN : SetAgentMode(enabled)
    \/ Step(EpisodeDurations)

SpecMotion == MotionInit /\ [][MotionNext]_vars

---------------------------------------------------------------------------
(* The generator on its own: one map constructed with any dimensions, and  *)
(* one route asked of it.                                                  *)

\* Largest width + height of the maps constructed.
MaxHalfPerimeter == 4

\* The widths and heights GridMap is constructed with, non-positive ones
\* included.
Dimensions ==
    { d \in ((-1)..MaxHalfPerimeter) \X ((-1)..MaxHalfPerimeter) :
        d[1] + d[2] <= MaxHalfPerimeter }

\* The length of list(range(n)): the rows and the columns of the grid array
\* GridMap.__init__ allocates.
RangeLen(n) == IF n > 0 THEN n ELSE 0

\* A constructor that accepts every width and height.
NeverRaises(width, height) == FALSE

\* Does GridMap(width, height) raise?  The first write of _generate_maze,
\* self.grid[1][1] = GridCell.ROAD (line 168), raises IndexError when the
\* array has no row 1 or no column 1; nothing before it checks the
\* dimensions and nothing after it can raise.
ConstructionRaises(width, height) ==
    \/ RangeLen(height * 2 + 1) <= 1
    \/ RangeLen(width * 2 + 1) <= 1

\* GridMap(width, height, seed) called once.  When the constructor raises, the
\* caller receives no GridMap.
Construct(width, height) ==
    /\ grid = NoGridMap
    /\ last.op = "init"
    /\ IF ConstructionRaises(width, height)
       THEN /\ last' = [op |-> "GridMap", width |-> width, height |-> height,
                        raised |-> TRUE]
            /\ UNCHANGED <<grid, intersections>>
       ELSE /\ grid' \in generate_maze(width, height)
            /\ intersections' =
                   [c \in IntersectionCells(grid') |->
                       Intersection(TRUE, GREEN_TIME_MIN, GREEN_TIME_MIN, 0)]
            /\ last' = [op |-> "GridMap", width |-> width, height |-> height,
                        raised |-> FALSE]
    /\ UNCHANGED <<map_seed, twin, vehicles, current_step, arrived_count,
                   total_spawned_vehicles, agent_mode, fixed_vehicle_mode,
                   fixed_vehicle_count>>

MazeInit == InitEnv({0})

MazeNext ==
    \/ \E d \in Dimensions : Construct(d[1], d[2])
    \/ \E start \in DOMAIN grid.cells, end \in DOMAIN grid.cells : Route(start, end)

SpecMaze == MazeInit /\ [][MazeNext]_vars

---------------------------------------------------------------------------
(* The generator pass by pass: the grid as the depth-first carve leaves    *)
(* it, then the grid as the remaining passes leave it, then one route.     *)

\* A carve followed by the opening of every wall the extra-path pass may open.
CarvedWithLoops(width, height) ==
    LET start == [GridMap(width, height) EXCEPT !.cells[<<1, 1>>] = ROAD]
    IN  { add_extra_paths(g, ExtraPathWalls(g)) :
            g \in Carve(width, height, start, {<<0, 0>>}, <<<<0, 0>>>>) }

\* GridMap._generate_maze, lines 164-197: the grids the carve can leave.
CarvedGrids(width, height) ==
    LET start == [GridMap(width, height) EXCEPT !.cells[<<1, 1>>] = ROAD]
    IN  Carve(width, height, start, {<<0, 0>>}, <<<<0, 0>>>>)

\* GridMap(width, height) up to the end of the carve loop (line 197).
CarveMaze(width, height) ==
    /\ grid = NoGridMap
    /\ last.op = "init"
    /\ ~ConstructionRaises(width, height)
    /\ grid' \in CarvedGrids(width, height)
    /\ last' = [op |-> "carve", width |-> width, height |-> height]
    /\ UNCHANGED <<map_seed, twin, intersections, vehicles, current_step,
                   arrived_count, total_spawned_vehicles, agent_mode,
                   fixed_vehicle_mode, fixed_vehicle_count>>

\* The rest of _generate_maze (lines 199-201): extra paths, boundary exits
\* and the classification of the intersections.
FinishMaze ==
    /\ last.op = "carve"
    /\ \E opened \in SUBSET ExtraPathWalls(grid) :
         grid' = identify_intersections(add_boundary_exits(add_extra_paths(grid, opened)))
    /\ intersections' =
           [c \in IntersectionCells(grid') |->
               Intersection(TRUE, GREEN_TIME_MIN, GREEN_TIME_MIN, 0)]
    /\ last' = [op |-> "GridMap", width |-> last.width, height |-> last.height,
                raised |-> FALSE]
    /\ UNCHANGED <<map_seed, twin, vehicles, current_step, arrived_count,
                   total_spawned_vehicles, agent_mode, fixed_vehicle_mode,
                   fixed_vehicle_count>>

CarveInit == InitEnv({0})

CarveNext ==
    \/ \E d \in Dimensions : CarveMaze(d[1], d[2])
    \/ FinishMaze
    \/ \E start \in DOMAIN grid.cells, end \in DOMAIN grid.cells : Route(start, end)

SpecCarve == CarveInit /\ [][CarveNext]_vars

---------------------------------------------------------------------------
(* Episodes of both spawn modes: an environment on which                   *)
(* set_fixed_vehicle_mode was called, or one left in dynamic-spawn mode,   *)
(* reset and ticked.                                                       *)

\* GridTrafficEnv.__init__ alone: the environment spawns dynamically.
DynamicEnv ==
    /\ grid = NoGridMap
    /\ intersections = <<>>
    /\ vehicles = <<>>
    /\ current_step = 0
    /\ arrived_count = 0
    /\ total_spawned_vehicles = 0
    /\ agent_mode = FALSE
    /\ fixed_vehicle_mode = FALSE
    /\ fixed_vehicle_count = 0
    /\ map_seed = None
    /\ last = [op |-> "init"]
    /\ twin = NoTwin

SpawnInit == InitEnv({MaxVehicles}) \/ DynamicEnv

SpawnNext ==
    \/ Reset(EpisodeDurations, EpisodeOffsets)
    \/ Step(EpisodeDurations)

SpecSpawn == SpawnInit /\ [][SpawnNext]_vars

---------------------------------------------------------------------------
(* run_grid_simulation without override: the environment is put in         *)
(* fixed-vehicle mode, reset, and stepped until a step leaves no active    *)
(* vehicle.  The loop runs on: an iteration that can be taken is taken.    *)

\* Ticks the model follows a run for; the runs end before.
MaxTicks == 48

\* The durations and offsets a run draws for its signals: the extremes.
RunDurations == {GREEN_TIME_MIN, GREEN_TIME_MAX}
RunOffsets == {0, MAX_INIT_OFFSET}

\* main.py, lines 34-53: the loop takes another iteration after reset and
\* after a step that left vehicles (vehicle_count == 0 breaks the loop).
Continues == last.op = "reset" \/ (last.op = "step" /\ vehicles # <<>>)

\* One iteration of the loop with agent_mode off: env.step(0).
RunStep(D) == Continues /\ StepWithin(D, MaxTicks)

\* The states in which an iteration can be taken.  It is the value of
\* ENABLED <<RunStep(D)>>_vars: env.step has no other precondition and every
\* call advances current_step.
RunStepEnabled == Continues /\ grid # NoGridMap /\ current_step < MaxTicks

RunInit == InitEnv(0..MaxVehicles)

RunNext ==
    \/ Reset(RunDurations, RunOffsets)
    \/ RunStep(RunDurations)

\* Weak fairness of the loop iteration, WF_vars(RunStep(RunDurations)),
\* written out with RunStepEnabled for its ENABLED.
SpecRun ==
    /\ RunInit
    /\ [][RunNext]_vars
    /\ ([]<>~RunStepEnabled \/ []<><<RunStep(RunDurations)>>_vars)

---------------------------------------------------------------------------
(* Properties of the signals (checked under SpecSignal).                   *)

Open(light) == light.state \in {GREEN, YELLOW}

\* The two lights of every intersection.
AllLights ==
    UNION { {intersections[p].traffic_light_ns, intersections[p].traffic_light_ew} :
              p \in DOMAIN intersections }

\* C1: for every intersection, after any sequence of autonomous updates and
\* override commands, at most one of the two axes is GREEN or YELLOW, and
\* the other axis is RED.
AtMostOneAxisOpen ==
    \A p \in DOMAIN intersections :
        LET ns == intersections[p].traffic_light_ns
            ew == intersections[p].traffic_light_ew
        IN  /\ Open(ns) => ew.state = RED
            /\ Open(ew) => ns.state = RED

\* An update has just handed the right of way over: the axis that was open
\* went RED in this call and its sibling turned GREEN.
HandOffDone ==
    /\ last.op = "update_intersections"
    /\ \E p \in DOMAIN intersections :
          LET ns == intersections[p].traffic_light_ns
              ew == intersections[p].traffic_light_ew
          IN  \/ ns.state = RED /\ ns.timer = RED_DURATION /\ ew.state = GREEN
              \/ ew.state = RED /\ ew.timer = RED_DURATION /\ ns.state = GREEN

\* C6: the pass predicate of an axis depends on its state and countdown
\* only: true on GREEN whatever the countdown, false on RED whatever the
\* countdown, and on YELLOW true exactly when the countdown is above 1.
PassPredicateByStateAndCountdown ==
    \A light \in AllLights :
        /\ light.state = GREEN => can_pass(light) = TRUE
        /\ light.state = RED => can_pass(light) = FALSE
        /\ light.state = YELLOW => (can_pass(light) <=> light.timer > 1)

\* A YELLOW light on its last tick, next to lights the updates have counted
\* down: the predicate is false on the one and decided on the others.
YellowAtThreshold ==
    /\ last.op = "update_intersections"
    /\ \E light \in AllLights : light.state = YELLOW /\ light.timer = 1

\* What a command's documentation promises of the intersection it is applied
\* to, given the intersection before the call.
DocumentedPostState(action, before, after) ==
    LET ns == after.traffic_light_ns
        ew == after.traffic_light_ew
    IN  CASE action = "toggle" ->
               /\ Open(before.traffic_light_ns) => ns.state = RED /\ ew.state = GREEN
               /\ Open(before.traffic_light_ew) => ew.state = RED /\ ns.state = GREEN
          [] action = "ns_green" -> ns.state = GREEN /\ ew.state = RED
          [] action = "ew_green" -> ew.state = GREEN /\ ns.state = RED
          [] action = "ns_yellow" -> ns.state = YELLOW /\ ew.state = RED
          [] action = "ew_yellow" -> ew.state = YELLOW /\ ns.state = RED
          [] OTHER -> after = before

\* C12: each override command produces its documented post-state from every
\* reachable prior state: toggle turns the axis that was GREEN or YELLOW to
\* RED and the other to GREEN; force-<axis>-green leaves the named axis GREEN
\* and the other RED; force-<axis>-yellow leaves the named axis YELLOW and the
\* other RED; and a second toggle gives the non-RED role back to the axis
\* that held it before the first.
CommandsReachDocumentedState ==
    [][\A c \in Commands :
          ( /\ c[1] \in DOMAIN intersections
            /\ c[2] \in ControlActions
            /\ last'.op = "control_intersection"
            /\ ControlIntersection(GreenDurations, c[1], c[2]) )
          => /\ DocumentedPostState(c[2], intersections[c[1]], intersections'[c[1]])
             /\ c[2] = "toggle" =>
                   \A d \in GreenDurations :
                      LET back == toggle(intersections'[c[1]], d)
                      IN  /\ Open(back.traffic_light_ns)
                                = Open(intersections[c[1]].traffic_light_ns)
                          /\ Open(back.traffic_light_ew)
                                = Open(intersections[c[1]].traffic_light_ew)]_vars

\* A command has just forced north-south to YELLOW on signals that updates
\* had counted down: the YELLOW is fresh and the RED at its full countdown.
ForcedYellow ==
    /\ last.op = "control_intersection"
    /\ last.valid
    /\ ~last.hold
    /\ \E p \in DOMAIN intersections :
          /\ intersections[p].traffic_light_ns.state = YELLOW
          /\ intersections[p].traffic_light_ns.timer = YELLOW_TIME
          /\ intersections[p].traffic_light_ew.state = RED
          /\ intersections[p].traffic_light_ew.timer = RED_DURATION

\* Has the call that led to this state been an autonomous update?
UpdateTaken == last'.op = "update_intersections"

\* C22: during autonomous updates an axis changes from RED to GREEN in an
\* update if and only if its sibling changes from YELLOW to RED in that same
\* update; a RED axis leaves RED in no other way (its own countdown never
\* runs out), and no update ends with both axes RED.
RedLeavesOnlyByHandOff ==
    [][UpdateTaken =>
          \A p \in DOMAIN intersections :
             LET ns == intersections[p].traffic_light_ns
                 ew == intersections[p].traffic_light_ew
                 ns2 == intersections'[p].traffic_light_ns
                 ew2 == intersections'[p].traffic_light_ew
             IN  /\ (ns.state = RED /\ ns2.state = GREEN)
                       <=> (ew.state = YELLOW /\ ew2.state = RED)
                 /\ (ew.state = RED /\ ew2.state = GREEN)
                       <=> (ns.state = YELLOW /\ ns2.state = RED)
                 /\ (ns.state = RED /\ ns2.state # RED)
                       => (ew.state = YELLOW /\ ew2.state = RED)
                 /\ (ew.state = RED /\ ew2.state # RED)
                       => (ns.state = YELLOW /\ ns2.state = RED)
                 /\ ~(ns2.state = RED /\ ew2.state = RED)]_vars

\* An update has just handed the right of way to north-south with the
\* longest GREEN the code draws, east-west having run out of YELLOW.
HandedOverToNorthSouth ==
    /\ last.op = "update_intersections"
    /\ \E p \in DOMAIN intersections :
          /\ intersections[p].traffic_light_ns.state = GREEN
          /\ intersections[p].traffic_light_ns.timer = GREEN_TIME_MAX
          /\ intersections[p].traffic_light_ew.state = RED
          /\ intersections[p].traffic_light_ew.timer = RED_DURATION

\* The orders in which an update may change the state of a light.
PhaseOrder == {<<GREEN, YELLOW>>, <<YELLOW, RED>>, <<RED, GREEN>>}

\* What C23 says of one light that an update takes from `a` to `b`, `run`
\* being the run of `a`.
PhaseTimed(a, b, run) ==
    /\ a.state # b.state => <<a.state, b.state>> \in PhaseOrder
    /\ (a.state = GREEN /\ run.handed) =>
          /\ run.since <= GREEN_TIME_MAX
          /\ b.state # GREEN => (b.state = YELLOW /\ run.since >= GREEN_TIME_MIN)
    /\ a.state = YELLOW =>
          /\ can_pass(a) <=> run.since = 1
          /\ run.since <= YELLOW_TIME
          /\ b.state # YELLOW => (b.state = RED /\ run.since = YELLOW_TIME)

\* C23 (checked under SpecPhases): under uninterrupted autonomous updates a
\* GREEN phase begun by a hand-off keeps its axis GREEN for d consecutive
\* ticks, GREEN_TIME_MIN <= d <= GREEN_TIME_MAX, is followed by a YELLOW phase
\* of exactly YELLOW_TIME ticks of which only the first is passable, and then
\* by RED; the states of a light change in no other order.
PhasesLastAsDocumented ==
    [][(last'.op = "update_intersections" /\ grid # NoGridMap) =>
          \A p \in DOMAIN intersections :
             /\ PhaseTimed(intersections[p].traffic_light_ns,
                           intersections'[p].traffic_light_ns, PhaseRuns[p].ns)
             /\ PhaseTimed(intersections[p].traffic_light_ew,
                           intersections'[p].traffic_light_ew, PhaseRuns[p].ew)]_vars

\* A light that a hand-off turned GREEN has run its GREEN phase and stands
\* on the second, impassable tick of the YELLOW that follows.
HandedGreenRanOut ==
    /\ last.op = "update_intersections"
    /\ \E p \in DOMAIN intersections :
          /\ intersections[p].traffic_light_ew.state = YELLOW
          /\ last.runs[p].ew.handed
          /\ last.runs[p].ew.since = YELLOW_TIME
          /\ ~can_pass(intersections[p].traffic_light_ew)

\* The RED light `red` shows the countdown of its sibling `sib`, plus the
\* YELLOW still to come when the sibling is GREEN.
PinnedTo(red, sib) ==
    /\ sib.state = GREEN => red.timer = sib.timer + YELLOW_TIME
    /\ sib.state = YELLOW => red.timer = sib.timer

\* C24: after an autonomous update that is not a hand-off, the countdown of
\* the RED axis equals its sibling's countdown plus YELLOW_TIME if the
\* sibling is GREEN, and its sibling's countdown if the sibling is YELLOW.
RedCountdownPinnedToSibling ==
    [][UpdateTaken =>
          \A p \in DOMAIN intersections :
             LET ns == intersections[p].traffic_light_ns
                 ew == intersections[p].traffic_light_ew
                 ns2 == intersections'[p].traffic_light_ns
                 ew2 == intersections'[p].traffic_light_ew
             IN  /\ (ns.state = RED /\ ns2.state = RED) => PinnedTo(ns2, ew2)
                 /\ (ew.state = RED /\ ew2.state = RED) => PinnedTo(ew2, ns2)]_vars

\* The state in which Intersection.update takes its last branch (line 94):
\* neither light is GREEN or YELLOW.
DegenerateBranch(inter) ==
    ~Open(inter.traffic_light_ns) /\ ~Open(inter.traffic_light_ew)

\* C28: in every state reached from the construction of the intersections by
\* autonomous updates and override commands in any order, exactly one axis of
\* each intersection is non-RED; both axes RED is unreachable, so update
\* never takes the branch that forces north-south GREEN.
ExactlyOneAxisOpen ==
    \A p \in DOMAIN intersections :
        /\ Open(intersections[p].traffic_light_ns)
              # Open(intersections[p].traffic_light_ew)
        /\ ~DegenerateBranch(intersections[p])

\* Updates have brought an intersection to the last tick before a hand-off:
\* north-south on its impassable YELLOW tick, east-west RED and about to open.
LastTickBeforeHandOff ==
    /\ last.op = "update_intersections"
    /\ \E p \in DOMAIN intersections :
          /\ intersections[p].traffic_light_ns.state = YELLOW
          /\ intersections[p].traffic_light_ns.timer = 1
          /\ intersections[p].traffic_light_ew.state = RED
          /\ intersections[p].traffic_light_ew.timer = YELLOW_TIME

\* The longest an axis waits on RED: a full GREEN and the YELLOW after it.
LongestWait == GREEN_TIME_MAX + YELLOW_TIME

\* C29 (checked under SpecWait): under consecutive autonomous updates with
\* no command between them, from every state that construction, updates and
\* commands reach, an axis that is RED is GREEN after at most
\* GREEN_TIME_MAX + YELLOW_TIME = 22 updates (it has been seen RED in at most
\* 22 consecutive states), and so each axis of each intersection is GREEN
\* again and again for ever.
RedTurnsGreenWithinLongestWait ==
    /\ [](Uninterrupted =>
            \A p \in DOMAIN intersections :
               /\ intersections[p].traffic_light_ns.state = RED
                     => last.runs[p].ns.since <= LongestWait
               /\ intersections[p].traffic_light_ew.state = RED
                     => last.runs[p].ew.since <= LongestWait)
    /\ []<>(\A p \in DOMAIN intersections :
               intersections[p].traffic_light_ns.state = GREEN)
    /\ []<>(\A p \in DOMAIN intersections :
               intersections[p].traffic_light_ew.state = GREEN)

\* An axis has waited the longest: its sibling began with the longest GREEN,
\* and 21 updates later the axis is seen RED for the last time.
WaitedLongest ==
    /\ Uninterrupted
    /\ \E p \in DOMAIN intersections :
          /\ intersections[p].traffic_light_ns.state = RED
          /\ last.runs[p].ns.since = LongestWait
          /\ intersections[p].traffic_light_ew.state = YELLOW

---------------------------------------------------------------------------
(* Properties of two episodes side by side (checked under SpecTwin).       *)

\* C13: two episodes created with the same seed and given the same commands
\* are in the same state at every tick (same grid, same intersections with
\* the same phases and countdowns, same vehicles, same arrival count), for
\* every seed value.
SameSeedSameTrajectory ==
    grid # NoGridMap => twin.episode = Episode

---------------------------------------------------------------------------
(* Properties of the episode (checked under Spec).                         *)

\* The light of an intersection that governs a movement axis.
AxisLight(inter, axis) ==
    IF axis = "ns" THEN inter.traffic_light_ns ELSE inter.traffic_light_ew

\* The vehicle's next waypoint is an intersection whose light for the
\* vehicle's movement axis is RED, or YELLOW with a countdown not above the
\* no-pass threshold.
GateClosedFor(v, inters) ==
    LET h == Heading(v)
    IN  /\ h.has_next
        /\ h.next_pos \in DOMAIN inters
        /\ LET light == AxisLight(inters[h.next_pos], h.move_axis)
           IN  \/ light.state = RED
               \/ light.state = YELLOW /\ light.timer <= YELLOW_NO_PASS_THRESHOLD

\* The vehicles of the list vs that are the object id.
Find(vs, id) == { vs[i] : i \in { j \in 1..Len(vs) : vs[j].id = id } }

\* The transition is a call of step.
StepTaken == current_step' = current_step + 1 /\ last'.op = "step"

\* The transition is a hold command (or leaves the hold command the last
\* call made: then it changes the mode only).
HoldIssued == last'.op = "control_intersection" /\ last'.hold

\* C11: within one call of step the two signal modes exclude each other and
\* are uniform: with override mode off, step applies the autonomous update
\* exactly once to every intersection; with override mode on, it applies it
\* to none, and every light keeps its state and countdown.
StepUpdatesAllOrNone ==
    [][StepTaken =>
        IF agent_mode
        THEN intersections' = intersections
        ELSE /\ DOMAIN intersections' = DOMAIN intersections
             /\ \A p \in DOMAIN intersections :
                   \E d \in GreenDurations :
                      intersections'[p] =
                          update(intersections[p], d)]_vars

\* Ticks of both modes have run on a network of several intersections, some
\* open north-south and some east-west: the last one was autonomous and
\* left countdowns an override tick had frozen before.
BothModesTicked ==
    /\ last.op = "step"
    /\ ~last.agent
    /\ current_step >= 2
    /\ Cardinality(DOMAIN intersections) >= 2
    /\ \E p, q \in DOMAIN intersections :
          /\ Open(intersections[p].traffic_light_ns)
          /\ Open(intersections[q].traffic_light_ew)
          /\ intersections[p].traffic_light_ns.timer = GREEN_TIME_MIN - 1

\* The ids of the vehicles of a list.
Ids(vs) == { vs[i].id : i \in 1..Len(vs) }

\* C18 (checked under SpecMotion): a vehicle whose route cursor is already at
\* the last waypoint of its route (a route of one cell, start = destination)
\* is, at the next tick, removed from the active vehicles and counted as
\* arrived exactly once, whatever the signals show and whatever the other
\* vehicles do: the arrival count grows by one per vehicle removed.
VehicleAtRouteEndArrives ==
    [][StepTaken =>
          /\ \A i \in AtRouteEnd(vehicles) : vehicles[i].id \notin Ids(vehicles')
          /\ arrived_count' - arrived_count
                = Cardinality(Ids(vehicles) \ Ids(vehicles'))]_vars

\* A tick found a vehicle at the end of its one-cell route and removed it,
\* while another vehicle, facing a closed signal, was held where it stood.
ArrivedWithoutMoving ==
    /\ last.op = "step"
    /\ last.at_end = 1
    /\ arrived_count = 1
    /\ current_step = 1
    /\ Len(vehicles) = 1
    /\ vehicles[1].path_index = 0
    /\ Len(vehicles[1].path) >= 2

\* The variants and wait counts a second run gives its vehicles: an ordinary
\* car, fresh or with a wait that raises its priority, and an ambulance with
\* its siren on that has waited.
Labels ==
    { [class |-> "Car", wait_time |-> 0, siren |-> FALSE],
      [class |-> "Car", wait_time |-> 10, siren |-> FALSE],
      [class |-> "Ambulance", wait_time |-> 10, siren |-> TRUE] }

\* The vehicle v of the second run: same place, route and cursor, other
\* variant and wait count.
Relabel(v, label) ==
    IF label.class = "Car" THEN [v EXCEPT !.wait_time = label.wait_time]
    ELSE [Ambulance(v.id, label.siren, v.grid_position, v.destination, v.path)
            EXCEPT !.path_index = v.path_index,
                   !.direction = v.direction,
                   !.wait_time = label.wait_time]

\* Where the vehicles of a list stand and how far along their routes.
Standing(vs) ==
    { [id |-> vs[i].id, grid_position |-> vs[i].grid_position,
       path_index |-> vs[i].path_index] : i \in 1..Len(vs) }

\* C21 (checked under SpecMotion): the outcome of a motion tick (which
\* vehicles advance, which are held, which arrive) does not depend on the
\* vehicles' variant or priority score: a run that differs from the one
\* taken only in vehicles being ambulances or cars, or in their wait counts,
\* ends the tick with the same positions and the same arrival count.
TickIgnoresVariantAndPriority ==
    [][StepTaken =>
          \A labels \in [1..Len(vehicles) -> Labels] :
             LET other == [i \in 1..Len(vehicles) |-> Relabel(vehicles[i], labels[i])]
                 moved == move_vehicles(other, intersections', arrived_count)
             IN  /\ Standing(moved.remaining) = Standing(vehicles')
                 /\ moved.arrived_count = arrived_count']_vars

\* A tick held a vehicle that the signal would have let through: the cell
\* ahead was taken by a vehicle heading the same way.
HeldByOccupantOnly ==
    /\ last.op = "step"
    /\ current_step = 1
    /\ \E i \in 1..Len(vehicles) :
          /\ vehicles[i].path_index = 0
          /\ Len(vehicles[i].path) >= 2
          /\ SignalAllows(vehicles[i], intersections)

\* C30: in every reachable state each active vehicle stands on the waypoint
\* its route cursor names; one motion tick changes a vehicle's cursor by 0 or
\* by +1 (never backwards, never over a waypoint), so the vehicle moves at
\* most one cell and only to a 4-adjacent cell, and the tick changes neither
\* its route nor its destination.  A vehicle the tick removes was at the
\* last waypoint of its route or one waypoint before it.
VehiclesFollowRouteOneCellPerTick ==
    /\ [](\A i \in 1..Len(vehicles) :
            /\ vehicles[i].path_index + 1 \in 1..Len(vehicles[i].path)
            /\ vehicles[i].grid_position = vehicles[i].path[vehicles[i].path_index + 1])
    /\ [][StepTaken =>
            \A i \in 1..Len(vehicles) :
               LET v == vehicles[i]
               IN  IF v.id \in Ids(vehicles')
                   THEN \A w \in Find(vehicles', v.id) :
                          /\ w.path_index \in {v.path_index, v.path_index + 1}
                          /\ Manhattan(v.grid_position, w.grid_position)
                                = w.path_index - v.path_index
                          /\ w.path = v.path
                          /\ w.destination = v.destination
                   ELSE v.path_index >= Len(v.path) - 2]_vars

\* After a tick one vehicle stands one waypoint along its route and another
\* still stands on its first waypoint.
OneAdvancedOneHeld ==
    /\ last.op = "step"
    /\ \E i \in 1..Len(vehicles), j \in 1..Len(vehicles) :
          /\ vehicles[i].path_index = 1
          /\ vehicles[j].path_index = 0

\* Two vehicles stand in adjacent cells and each is about to enter the
\* other's cell.
HeadOn(v, w) ==
    /\ v.id # w.id
    /\ Manhattan(v.grid_position, w.grid_position) = 1
    /\ v.path_index < Len(v.path) - 1
    /\ w.path_index < Len(w.path) - 1
    /\ v.path[v.path_index + 2] = w.grid_position
    /\ w.path[w.path_index + 2] = v.grid_position

\* The cell in which the tick leaves a vehicle that had a next waypoint: its
\* position if it is still active, and the waypoint it advanced into if the
\* tick removed it (only a vehicle that advanced is removed).
EndsAt(v, after) ==
    IF v.id \in Ids(after)
    THEN CHOOSE c \in { w.grid_position : w \in Find(after, v.id) } : TRUE
    ELSE v.path[v.path_index + 2]

\* C27: two vehicles in adjacent cells travelling toward each other never
\* exchange cells within a single tick (they do not pass through one
\* another): the tick does not leave each in the cell the other stood in.
NoHeadOnExchange ==
    [][StepTaken =>
          \A i \in 1..Len(vehicles), j \in 1..Len(vehicles) :
             HeadOn(vehicles[i], vehicles[j]) =>
                ~ /\ EndsAt(vehicles[i], vehicles') = vehicles[j].grid_position
                  /\ EndsAt(vehicles[j], vehicles') = vehicles[i].grid_position]_vars

\* Two vehicles seek to enter the same candidate cell in the same direction
\* of entry (so they stand in the same cell).
Contest(v, w) ==
    /\ v.id # w.id
    /\ Heading(v).has_next /\ Heading(w).has_next
    /\ Heading(v).next_pos = Heading(w).next_pos
    /\ Heading(v).move_direction = Heading(w).move_direction

\* What the tick did with a vehicle that had a next waypoint.
Advanced(v, after) == EndsAt(v, after) = Heading(v).next_pos

Held(v, after) == v.id \in Ids(after) /\ EndsAt(v, after) = v.grid_position

\* No third vehicle stands in the cell the two stand in or in the cell they
\* seek.
Alone(vs, i, j) ==
    \A k \in 1..Len(vs) \ {i, j} :
        vs[k].grid_position \notin {vs[i].grid_position, Heading(vs[i]).next_pos}

ArrivalRemovesAndCounts ==
    [][/\ StepTaken =>
             /\ \A j \in 1..Len(vehicles') :
                   vehicles'[j].path_index < Len(vehicles'[j].path) - 1
             /\ Ids(vehicles') \subseteq Ids(vehicles)
             /\ arrived_count' - arrived_count
                   = Cardinality(Ids(vehicles) \ Ids(vehicles'))
       /\ last'.op \notin {"step", "reset"} => vehicles' = vehicles
       /\ last'.op # "reset" => arrived_count' >= arrived_count]_vars

\* A tick moved a vehicle into the final cell of its route and removed it,
\* while another vehicle stayed active.
ArrivedByAdvancing ==
    /\ last.op = "step"
    /\ last.at_end = 0
    /\ arrived_count = 1
    /\ Len(vehicles) = 1
    /\ total_spawned_vehicles = 2

\* C31 (checked under SpecSpawn): after reset and after every step the
\* reported total_spawned equals arrived_count plus the number of active
\* vehicles, in fixed-vehicle mode and in dynamic-spawn mode.
SpawnedAreActiveOrArrived ==
    total_spawned_vehicles = arrived_count + Len(vehicles)

\* The loop of the run has stopped with every spawned vehicle arrived.
Stopped ==
    /\ last.op = "step"
    /\ vehicles = <<>>
    /\ arrived_count = total_spawned_vehicles

\* C32 (checked under SpecRun): in fixed-vehicle mode with autonomous
\* signals, no new spawns, no override commands and no step cap, every
\* vehicle eventually arrives: the active set becomes empty after finitely
\* many ticks after reset (the cap on the model's counter is never what
\* ends a run: no vehicle is active when the counter reaches it), and the
\* loop then stops for good with arrived_count equal to the number of
\* vehicles spawned.
EveryVehicleArrives ==
    /\ [](vehicles # <<>> => current_step < MaxTicks)
    /\ (last.op = "reset") ~> Stopped
    /\ [](Stopped => ~Continues)
    /\ [][Stopped => Stopped']_vars

\* A run of two vehicles has stopped after more ticks than the longest GREEN
\* phase lasts: a vehicle waited for its signal and then arrived.
RunEndedAfterWaiting ==
    /\ Stopped
    /\ total_spawned_vehicles = MaxVehicles
    /\ current_step > GREEN_TIME_MAX + YELLOW_TIME

\* C2: in a motion tick, a vehicle whose next waypoint is an intersection
\* whose pass predicate for the vehicle's axis is false (RED, or YELLOW with
\* the countdown not above the threshold) does not advance: its grid
\* position and its route cursor are after the tick what they were before.
\* The signals the tick's motion reads are the ones the tick leaves.
GatedVehicleStays ==
    [][StepTaken =>
        \A i \in 1..Len(vehicles) :
            GateClosedFor(vehicles[i], intersections')
            => \E w \in Find(vehicles', vehicles[i].id) :
                  /\ w.grid_position = vehicles[i].grid_position
                  /\ w.path_index = vehicles[i].path_index]_vars

\* A tick has just held a vehicle at its start, in front of a light on the
\* last tick of its YELLOW.
HeldAtLastYellowTick ==
    /\ last.op = "step"
    /\ \E i \in 1..Len(vehicles) :
          LET h == Heading(vehicles[i])
          IN  /\ vehicles[i].path_index = 0
              /\ h.has_next
              /\ h.next_pos \in DOMAIN intersections
              /\ AxisLight(intersections[h.next_pos], h.move_axis).state = YELLOW
              /\ AxisLight(intersections[h.next_pos], h.move_axis).timer = 1

\* C3: after every motion tick, no two active vehicles occupy the same cell
\* while travelling in different directions.
NoCellSharedAcrossDirections ==
    last.op = "step"
    => \A i, j \in 1..Len(vehicles) :
          (i # j /\ vehicles[i].grid_position = vehicles[j].grid_position)
          => vehicles[i].direction = vehicles[j].direction

\* C4: in a motion tick, a vehicle whose next waypoint is an intersection
\* whose light for the vehicle's axis is GREEN, and whose candidate cell holds
\* no other vehicle recorded with the same direction in the occupancy map the
\* vehicle is checked against, advances to that waypoint in that tick: its
\* route cursor grows by one and its position is the waypoint.
GreenAndFreeVehicleAdvances ==
    [][StepTaken =>
        LET run == move_vehicles(vehicles, intersections', arrived_count)
        IN  \A i \in 1..Len(vehicles) :
              LET v == vehicles[i]
                  h == Heading(v)
                  occupied == run.trace[i].occupied
                  key == <<h.next_pos, h.move_direction>>
              IN  ( /\ h.has_next
                    /\ h.next_pos \in DOMAIN intersections'
                    /\ AxisLight(intersections'[h.next_pos], h.move_axis).state = GREEN
                    /\ ~ (key \in DOMAIN occupied /\ occupied[key] # v.id) )
                  => \E w \in Find(vehicles', v.id) :
                        /\ w.path_index = v.path_index + 1
                        /\ w.grid_position = h.next_pos]_vars

\* A tick has just moved a vehicle into an intersection on GREEN while
\* another vehicle, of another direction, stands in the same cell.
EnteredOnGreen ==
    /\ last.op = "step"
    /\ \E i, j \in 1..Len(vehicles) :
          LET v == vehicles[i]
          IN  /\ i # j
              /\ v.path_index = 1
              /\ v.grid_position \in DOMAIN intersections
              /\ AxisLight(intersections[v.grid_position],
                           IF v.direction \in {NORTH, SOUTH} THEN "ns" ELSE "ew").state
                    = GREEN
              /\ vehicles[j].grid_position = v.grid_position
              /\ vehicles[j].direction # v.direction

\* C5: after every motion tick, each vehicle held in the tick has its wait
\* count increased by exactly one and each vehicle that advanced has its wait
\* count at zero (so k consecutive held ticks give the wait count k).
WaitCountFollowsHeldTicks ==
    [][StepTaken =>
        \A i \in 1..Len(vehicles) :
            \A w \in Find(vehicles', vehicles[i].id) :
                IF w.path_index = vehicles[i].path_index
                THEN w.wait_time = vehicles[i].wait_time + 1
                ELSE w.wait_time = 0]_vars

\* C8: a command that names an unrecognized action, or a coordinate that is
\* not an intersection of the current network, is reported as rejected
\* (control_intersection returns False) and leaves every signal axis, every
\* vehicle and every counter unchanged.
RejectedCommandChangesNothing ==
    [][(last'.op = "control_intersection" /\ ~last'.valid)
          => /\ last'.ret = FALSE
             /\ intersections' = intersections
             /\ vehicles' = vehicles
             /\ current_step' = current_step
             /\ arrived_count' = arrived_count
             /\ total_spawned_vehicles' = total_spawned_vehicles]_vars

\* A command has just been rejected in the middle of an episode, with
\* vehicles on the road and signals that a tick has counted down.
CommandRejectedMidEpisode ==
    /\ last.op = "control_intersection"
    /\ last.ret = FALSE
    /\ current_step >= 1
    /\ vehicles # <<>>
    /\ DOMAIN intersections # {}

\* C9: in override mode, a tick in which the intersections receive only the
\* hold command leaves the state and the countdown of both axes of every
\* intersection as they were; hence so do N such ticks, for every N.
HoldTicksKeepSignals ==
    [][(agent_mode /\ (StepTaken \/ HoldIssued)) => intersections' = intersections]_vars

\* A tick has just run in override mode, past the first, on signals that
\* an autonomous tick would have counted down.
OverrideTickDone ==
    /\ last.op = "step"
    /\ last.agent
    /\ current_step >= 2
    /\ \E light \in AllLights : Open(light)

\* C10 (as stated): in override mode, a tick in which the intersections
\* receive only the hold command leaves the grid position of every vehicle
\* unchanged, and changes no attribute of a vehicle but its wait time.
HoldTicksKeepVehicles ==
    [][(agent_mode /\ (StepTaken \/ HoldIssued)) =>
        \A i \in 1..Len(vehicles) :
            \E w \in Find(vehicles', vehicles[i].id) :
                /\ w.grid_position = vehicles[i].grid_position
                /\ w = [vehicles[i] EXCEPT !.wait_time = w.wait_time]]_vars

\* C10 (amended): in override mode, a tick in which the intersections receive
\* only the hold command leaves in place (grid position and route cursor)
\* every vehicle whose next waypoint is an intersection closed to its axis,
\* and leaves it closed to that vehicle; hence N such ticks do, for every N.
HoldTicksKeepGatedVehicles ==
    [][(agent_mode /\ (StepTaken \/ HoldIssued)) =>
        \A i \in 1..Len(vehicles) :
            GateClosedFor(vehicles[i], intersections)
            => \E w \in Find(vehicles', vehicles[i].id) :
                  /\ w.grid_position = vehicles[i].grid_position
                  /\ w.path_index = vehicles[i].path_index
                  /\ GateClosedFor(w, intersections')]_vars

\* An override tick, past the first, has just left one vehicle at its start
\* in front of a closed intersection while another vehicle is under way.
GatedVehicleHeldWhileOthersMove ==
    /\ last.op = "step"
    /\ last.agent
    /\ current_step >= 2
    /\ \E i, j \in 1..Len(vehicles) :
          /\ vehicles[i].path_index = 0
          /\ GateClosedFor(vehicles[i], intersections)
          /\ vehicles[j].path_index >= 1

---------------------------------------------------------------------------
(* Properties of the router (checked under SpecRouter).                    *)

Passable(g, c) == InGrid(g, c) /\ g.cells[c] # EMPTY

\* The passable cells 4-adjacent to c, read off the grid array.
AdjacentRoads(g, c) ==
    { n \in DOMAIN g.cells :
        /\ g.cells[n] # EMPTY
        /\ Manhattan(n, c) = 1 }

\* Breadth-first search from the cells of `frontier`, all at distance n from
\* the start: the distance of end, or -1 if the search never reaches it.
RECURSIVE BfsDistance(_, _, _, _, _)
BfsDistance(g, frontier, seen, end, n) ==
    IF end \in frontier THEN n
    ELSE IF frontier = {} THEN -1
    ELSE LET next == UNION { AdjacentRoads(g, c) : c \in frontier } \ seen
         IN  BfsDistance(g, next, seen \cup next, end, n + 1)

ShortestDistance(g, start, end) == BfsDistance(g, {start}, {start}, end, 0)

\* C7: for passable cells start and end connected in the road graph, the
\* router returns a path from start to end that steps between 4-adjacent
\* passable cells and has as many steps as the breadth-first distance; for
\* start = end it returns the one-cell path.
RouterReturnsShortestPath ==
    (last.op = "dijkstra" /\ Passable(grid, last.start) /\ Passable(grid, last.end)
        /\ ShortestDistance(grid, last.start, last.end) >= 0)
    => LET path == last.ret
       IN  /\ path # None
           /\ path[1] = last.start
           /\ path[Len(path)] = last.end
           /\ \A i \in 1..(Len(path) - 1) :
                 /\ Passable(grid, path[i + 1])
                 /\ Manhattan(path[i], path[i + 1]) = 1
           /\ Len(path) - 1 = ShortestDistance(grid, last.start, last.end)
           /\ last.start = last.end => path = <<last.start>>

\* The router answered for two cells that a detour also connects: the
\* direct way is shorter than the way around the block.
RoutedWhereDetourExists ==
    /\ last.op = "dijkstra"
    /\ last.start # last.end
    /\ last.ret # None
    /\ Len(last.ret) >= 3
    /\ \E c \in AdjacentRoads(grid, last.start) :
          /\ c # last.ret[2]
          /\ ShortestDistance([grid EXCEPT !.cells[last.ret[2]] = EMPTY],
                              last.start, last.end) > Len(last.ret) - 1

\* C16: when the start cell or the end cell is a wall, or no passable route
\* joins them, the router returns None, and the call leaves the grid and the
\* intersection table as they were.
RouterReturnsNoneWithoutRoute ==
    [][(/\ last'.op = "dijkstra"
        /\ \/ ~Passable(grid, last'.start)
           \/ ~Passable(grid, last'.end)
           \/ ShortestDistance(grid, last'.start, last'.end) < 0)
       => /\ last'.ret = None
          /\ grid' = grid
          /\ intersections' = intersections]_vars

\* The router was asked for a route between two road cells that no route
\* joins, and answered None.
NoRouteBetweenRoads ==
    /\ last.op = "dijkstra"
    /\ Passable(grid, last.start)
    /\ Passable(grid, last.end)
    /\ ShortestDistance(grid, last.start, last.end) < 0
    /\ last.ret = None

\* C20 (checked under Spec): in every reachable state of an episode, every
\* active vehicle stands on a passable cell of the network, a road or an
\* intersection and never a wall.
VehiclesStandOnPassableCells ==
    \A i \in 1..Len(vehicles) : Passable(grid, vehicles[i].grid_position)

\* Two vehicles are active: one has advanced onto the intersection, the
\* other still stands on a boundary road cell.
OneOnJunctionOneOnRoad ==
    /\ last.op = "step"
    /\ \E i, j \in 1..Len(vehicles) :
          /\ vehicles[i].path_index >= 1
          /\ grid.cells[vehicles[i].grid_position] = INTERSECTION
          /\ grid.cells[vehicles[j].grid_position] = ROAD

---------------------------------------------------------------------------
(* Properties of the generator (checked under SpecMaze).                   *)

\* C14: in every generated network a passable cell is classified
\* intersection if and only if it has at least 3 passable 4-neighbours (so
\* intersection cells have 3 or more and plain road cells 2 or fewer), and
\* the intersection table has exactly one Intersection per intersection
\* cell, keyed by the cell's coordinate.
IntersectionsAreTheJunctions ==
    grid # NoGridMap =>
        /\ \A c \in DOMAIN grid.cells :
              /\ grid.cells[c] = INTERSECTION
                    <=> (Passable(grid, c) /\ Cardinality(AdjacentRoads(grid, c)) >= 3)
              /\ grid.cells[c] = ROAD => Cardinality(AdjacentRoads(grid, c)) <= 2
        /\ DOMAIN intersections = { c \in DOMAIN grid.cells : grid.cells[c] = INTERSECTION }

\* A network was generated with four junctions, corridor cells between them
\* and dead-end exits.
JunctionsAndCorridorsGenerated ==
    /\ last.op = "GridMap"
    /\ Cardinality(DOMAIN intersections) >= 4
    /\ \E c \in DOMAIN grid.cells :
          grid.cells[c] = ROAD /\ Cardinality(AdjacentRoads(grid, c)) = 2
    /\ \E c \in DOMAIN grid.cells :
          grid.cells[c] = ROAD /\ Cardinality(AdjacentRoads(grid, c)) = 1

\* C15: for all widths and heights of 1 or more the fully generated network
\* is connected: every passable cell, boundary exits included, is reachable
\* from every other passable cell, and the router returns a path for every
\* pair of passable cells.
GeneratedNetworkConnected ==
    /\ (last.op = "GridMap" /\ ~last.raised) =>
          \A a \in DOMAIN grid.cells, b \in DOMAIN grid.cells :
             (Passable(grid, a) /\ Passable(grid, b))
                => ShortestDistance(grid, a, b) >= 0
    /\ (last.op = "dijkstra" /\ Passable(grid, last.start) /\ Passable(grid, last.end))
          => last.ret # None

\* The router was asked for a route across a generated 5 x 5 network, from
\* the exit of one side to an exit of the opposite side.
RoutedAcrossGeneratedNetwork ==
    /\ last.op = "dijkstra"
    /\ grid.actual_width = 5 /\ grid.actual_height = 5
    /\ last.start[1] = 0
    /\ last.end[1] = grid.actual_width - 1
    /\ last.ret # None
    /\ Len(last.ret) >= 5

---------------------------------------------------------------------------
(* Properties of the carve (checked under SpecCarve).                      *)

\* The passable cells of a grid and the pairs of them that touch.
PassableCells(g) == { c \in DOMAIN g.cells : g.cells[c] # EMPTY }

Links(g) ==
    { pair \in SUBSET PassableCells(g) :
        /\ Cardinality(pair) = 2
        /\ \A a \in pair, b \in pair : a = b \/ Manhattan(a, b) = 1 }

\* C25: for all widths and heights of 1 or more, when the depth-first carve
\* finishes (before the extra-path pass) every logical cell of the lattice is
\* passable and the passable cells form a tree: every two of them are
\* joined (connected) and there is one link fewer than cells (no cycle), so
\* exactly one simple path joins any two logical cells, whatever neighbour
\* the noise field ranks first.
CarveLeavesSpanningTree ==
    last.op = "carve" =>
        /\ \A x \in 0..(last.width - 1), y \in 0..(last.height - 1) :
              grid.cells[<<1 + 2 * x, 1 + 2 * y>>] = ROAD
        /\ \A a \in PassableCells(grid), b \in PassableCells(grid) :
              ShortestDistance(grid, a, b) >= 0
        /\ Cardinality(Links(grid)) = Cardinality(PassableCells(grid)) - 1

\* The carve has finished on a 2 x 2 lattice, where one more opened wall
\* would close a loop: four logical cells joined by three opened walls.
CarvedTwoByTwo ==
    /\ last.op = "carve"
    /\ last.width = 2 /\ last.height = 2
    /\ Cardinality(PassableCells(grid)) = 7

=============================================================================
